---- MODULE Spec2Model ----
(***************************************************************************)
(* Model of cashu/lightning/zbd.py: the ZBD Lightning backend.             *)
(*                                                                         *)
(* The process-wide exchange-rate cache (ZBDWallet._rate_cache), the       *)
(* fetch-or-reuse algorithm of ZBDWallet.get_exchange_rate run by several  *)
(* concurrent asyncio flows, and the USD conversion of                     *)
(* ZBDWallet.cents_to_msats.                                               *)
(***************************************************************************)
EXTENDS Integers, Sequences, FiniteSets, TLC

(***************************************************************************)
(* Program constants.                                                      *)
(***************************************************************************)
RATE_CACHE_TTL_SECONDS == 300
RATE_CIRCUIT_BREAKER_TTL_SECONDS == 900

(***************************************************************************)
(* Bounds of the model.                                                    *)
(***************************************************************************)
\* seconds by which one step of the clock advances time.time()
Tick == 150
\* the clock stops advancing here
MaxNow == 1050
\* concurrent flows (asyncio tasks) calling get_exchange_rate
NumFlows == 2
\* get_exchange_rate calls started in one behaviour
MaxCalls == 3
\* the largest amount in cents given to cents_to_msats
MaxCents == 30
\* calls of the wallet's methods started in one behaviour
MaxOps == 2

\* events pubsub.listen() delivers to one paid_invoices_stream
MaxEvents == 3

Flows == 1..NumFlows

\* float("nan"), which float() gives for the btcUsdPrice values "nan" and
\* NaN: a float that is neither below, nor equal to, nor above any number.
\* The model keeps it as a number that no price takes, and compares rates
\* with zero through NonPositive and Positive only.
NaN == -2

\* btcUsdPrice values the rate endpoint answers with: two valid prices, and
\* the values float() parses to a non-positive rate (0 is also what an
\* absent btcUsdPrice field defaults to).
ValidPrices == {96000, 100000}
InvalidPrices == {0, -1}
Prices == ValidPrices \cup InvalidPrices

\* the rates given to cents_to_msats
ConvRates == {1000, 50000, 96000, 100000}

\* the balances in millisatoshis GET /v1/wallet answers with
Balances == {0, 999, 1000, 1999, 1000000}

\* the status strings GET /v1/charges/{id} answers with
ChargeStatuses == {"pending", "completed", "expired", "error", "some_new_status"}

\* the amounts (satoshis or cents) and memos given to create_invoice
Amounts == {0, 21}
Memos == {"None", "Test invoice"}

\* what client.get / raise_for_status / json / float raise
FetchErrors == {"HTTPStatusError", "TimeoutException"}
InvalidRateError == "Invalid exchange rate received from ZBD"

(***************************************************************************)
(* Python floats: IEEE 754 binary64, round to nearest, ties to even.  A    *)
(* non-negative float is [m, e]: the bits of its significand, most         *)
(* significant first and without leading zeros (<<>> is zero), and its     *)
(* exponent; its value is m * 2^e.  The values of the model stay far from  *)
(* the subnormal and the overflow range.                                   *)
(***************************************************************************)
MantissaBits == 53

\* big naturals are divided and multiplied ten bits (one limb) at a time
LimbBits == 10
LimbBase == 2^LimbBits

RECURSIVE BitsOfNat(_)
\* the bits of the natural number n < 2^31
BitsOfNat(n) == IF n = 0 THEN <<>> ELSE Append(BitsOfNat(n \div 2), n % 2)

Zeros(n) == [i \in 1..n |-> 0]

\* b without its leading zeros
Strip(b) ==
    IF \A i \in 1..Len(b) : b[i] = 0 THEN <<>>
    ELSE LET first == CHOOSE i \in 1..Len(b) :
                          b[i] = 1 /\ \A j \in 1..(i - 1) : b[j] = 0
         IN  SubSeq(b, first, Len(b))

\* b + 1
Increment(b) ==
    IF \A i \in 1..Len(b) : b[i] = 1 THEN <<1>> \o Zeros(Len(b))
    ELSE LET z == CHOOSE i \in 1..Len(b) :
                      b[i] = 0 /\ \A j \in (i + 1)..Len(b) : b[j] = 1
         IN  [i \in 1..Len(b) |-> IF i < z THEN b[i] ELSE IF i = z THEN 1 ELSE 0]

RECURSIVE LimbValue(_, _, _)
\* the number with the bits b[from..to], at most one limb of them
LimbValue(b, from, to) ==
    IF to < from THEN 0 ELSE 2 * LimbValue(b, from, to - 1) + b[to]

\* the limbs of the bits b, most significant first
LimbsOfBits(b) ==
    LET pad == (LimbBits - (Len(b) % LimbBits)) % LimbBits
        p == Zeros(pad) \o b
    IN  [j \in 1..(Len(p) \div LimbBits) |->
            LimbValue(p, LimbBits * (j - 1) + 1, LimbBits * j)]

\* the bits of the limbs l
BitsOfLimbs(l) ==
    Strip([i \in 1..(LimbBits * Len(l)) |->
              (l[(i - 1) \div LimbBits + 1]
                   \div 2^(LimbBits - 1 - ((i - 1) % LimbBits))) % 2])

RECURSIVE NatOfLimbs(_, _)
\* the natural number < 2^31 with the first n limbs of l
NatOfLimbs(l, n) ==
    IF n = 0 THEN 0 ELSE LimbBase * NatOfLimbs(l, n - 1) + l[n]

\* the natural number < 2^31 with the bits b
NatOfBits(b) == LET l == LimbsOfBits(b) IN NatOfLimbs(l, Len(l))

RECURSIVE LongDivision(_, _, _, _, _)
\* quotient and remainder of the limbs a by the integer 0 < d < 2^21, from
\* limb i on
LongDivision(a, d, i, q, r) ==
    IF i > Len(a) THEN [q |-> q, r |-> r]
    ELSE LET t == LimbBase * r + a[i]
         IN  LongDivision(a, d, i + 1, Append(q, t \div d), t % d)

RECURSIVE LongProduct(_, _, _, _, _)
\* the limbs of a times the integer 0 < n < 2^21, from limb i down
LongProduct(a, n, i, carry, out) ==
    IF i = 0 THEN LimbsOfBits(BitsOfNat(carry)) \o out
    ELSE LET t == a[i] * n + carry
         IN  LongProduct(a, n, i - 1, t \div LimbBase, <<t % LimbBase>> \o out)

\* the bits of (the bits b) * n
Times(b, n) ==
    LET l == LimbsOfBits(b) IN BitsOfLimbs(LongProduct(l, n, Len(l), 0, <<>>))

\* the float nearest to m * 2^e (a little more when sticky), ties to even
RoundToFloat(m, e, sticky) ==
    IF Len(m) <= MantissaBits THEN [m |-> m, e |-> e]
    ELSE LET kept == SubSeq(m, 1, MantissaBits)
             half == m[MantissaBits + 1] = 1
             more == sticky \/ \E i \in (MantissaBits + 2)..Len(m) : m[i] = 1
             odd == m[MantissaBits] = 1
         IN  [m |-> IF half /\ (more \/ odd) THEN Increment(kept) ELSE kept,
              e |-> e + Len(m) - MantissaBits]

\* float(n) for an integer 0 <= n < 2^31
FloatOfInt(n) == [m |-> BitsOfNat(n), e |-> 0]

\* x / d for a float x and an integer-valued 0 < d < 2^21
FloatDiv(x, d) ==
    LET shift == MantissaBits + 3 + Len(BitsOfNat(d)) - Len(x.m)
        qr == LongDivision(LimbsOfBits(x.m \o Zeros(shift)), d, 1, <<>>, 0)
    IN  RoundToFloat(BitsOfLimbs(qr.q), x.e - shift, qr.r # 0)

\* x * (a * b) for a float x and integers 0 < a, b < 2^21: the product is
\* taken exactly and rounded once
FloatMul(x, a, b) == RoundToFloat(Times(Times(x.m, a), b), x.e, FALSE)

\* int(x): truncation toward zero, for a result < 2^31
IntOfFloat(x) ==
    IF x.e >= 0 THEN NatOfBits(x.m \o Zeros(x.e))
    ELSE IF Len(x.m) + x.e <= 0 THEN 0
    ELSE NatOfBits(SubSeq(x.m, 1, Len(x.m) + x.e))

\* the ceiling taken as int(sats) + 1
cents_to_msats_plus_one(cents, btc_usd_rate) ==
    LET dollars == FloatDiv(FloatOfInt(cents), 100)
        btc == FloatDiv(dollars, btc_usd_rate)
        sats == FloatMul(btc, 10000, 10000)
    IN  (IntOfFloat(sats) + 1) * 1000

(***************************************************************************)
(* ZBDWallet.cents_to_msats; 100_000_000 is 10000 * 10000.                 *)
(***************************************************************************)
cents_to_msats(cents, btc_usd_rate) ==
    LET dollars == FloatDiv(FloatOfInt(cents), 100)
        btc == FloatDiv(dollars, btc_usd_rate)
        sats == FloatMul(btc, 10000, 10000)
        msats == IntOfFloat(FloatMul(sats, 1000, 1))
    IN  msats

VARIABLES
    now,          \* time.time()
    rate_cache,   \* ZBDWallet._rate_cache: NoCache or a CachedRate
    pc,           \* per flow: "idle" or "fetching" (suspended in client.get)
    started,      \* per flow in a call: the cache entry the call started with
    last,         \* the record of the call that ended most recently
    ncalls,       \* get_exchange_rate calls started so far
    requests,     \* GET /v1/btcusd requests issued so far
    hist,         \* what the sequence of calls so far looked like
    conv,         \* a cents_to_msats call: its arguments and its result
    wallet,       \* the ZBDWallet instance: NoWallet until one is constructed
    ctor,         \* the record of the latest ZBDWallet(...) call
    fpc,          \* where the caller of the wallet's methods is suspended
    cur,          \* the method call in progress: arguments, requests sent
    ret,          \* what the method call that ended most recently gave
    nops,         \* method calls started so far
    stream        \* the paid_invoices_stream generator: where it is suspended,
                  \* the events it received, what it yielded, its broker calls

\* the state of the wallet's methods other than get_exchange_rate
facadeVars == <<wallet, ctor, fpc, cur, ret, nops, stream>>

vars == <<now, rate_cache, pc, started, last, ncalls, requests, hist, conv,
          wallet, ctor, fpc, cur, ret, nops, stream>>

\* ZBDWallet._rate_cache = None
NoCache == [set |-> FALSE, rate |-> 0, timestamp |-> 0]

\* CachedRate(rate=rate, timestamp=timestamp)
CachedRate(rate, timestamp) == [set |-> TRUE, rate |-> rate, timestamp |-> timestamp]

\* is_fresh with the bound included
is_fresh_inclusive(c, t) == t - c.timestamp <= RATE_CACHE_TTL_SECONDS

\* is_fresh with the comparison turned around
is_fresh_reversed(c, t) == t - c.timestamp > RATE_CACHE_TTL_SECONDS

\* CachedRate.is_fresh, evaluated at time t
is_fresh(c, t) == t - c.timestamp < RATE_CACHE_TTL_SECONDS

\* is_usable with the bound included
is_usable_inclusive(c, t) == t - c.timestamp <= RATE_CIRCUIT_BREAKER_TTL_SECONDS

\* is_usable with the TTL of is_fresh
is_usable_short(c, t) == t - c.timestamp < RATE_CACHE_TTL_SECONDS

\* CachedRate.is_usable, evaluated at time t
is_usable(c, t) == t - c.timestamp < RATE_CIRCUIT_BREAKER_TTL_SECONDS

\* the age of a cache entry at time t; -1 when there is none
NoAge == -1
AgeOf(c, t) == IF c.set THEN t - c.timestamp ELSE NoAge

\* the response a call saw from the rate endpoint
NoResponse == [kind |-> "none", price |-> 0, exc |-> ""]
DataResponse(p) == [kind |-> "data", price |-> p, exc |-> ""]
ExcResponse(e) == [kind |-> "exc", price |-> 0, exc |-> e]

\* what a call in flight remembers of its start: the age and the rate of
\* the cache entry it found, and the requests it has sent
NotStarted == [age |-> NoAge, rate |-> 0, reqs |-> 0, at |-> 0]
StartedWith(c, t) == [age |-> AgeOf(c, t), rate |-> c.rate, reqs |-> 1, at |-> t]

\* the record of a call that has ended: how it ended (outcome), the rate it
\* returned, the exception it raised and the cause in its message, the cache
\* entry it started with (start), the one it found when the response came
\* (end) and the one it left behind (left), each as age and rate at that
\* moment, the response it saw and the number of requests it sent
NoCall ==
    [outcome |-> "none", result |-> 0, error |-> "", cause |-> "",
     startAge |-> NoAge, startRate |-> 0, endAge |-> NoAge, endRate |-> 0,
     leftAge |-> NoAge, leftRate |-> 0, resp |-> NoResponse, reqs |-> 0]

\* overlap: a call started while another was in flight; first, firstAt: how
\* and when the first call to end ended; lastStart: when the latest call
\* started; returned: the rates returned so far; raised: a call has raised;
\* storedAt: when a call last stored a rate it fetched (NoStore: never);
\* fallbacks: the calls that returned the cached rate after a failed fetch
\* since then
NoStore == -1
NoHist ==
    [overlap |-> FALSE, first |-> "none", firstAt |-> 0,
     lastStart |-> 0, returned |-> {}, raised |-> FALSE,
     storedAt |-> NoStore, fallbacks |-> 0]

\* no cents_to_msats call
NoConv == [cents |-> 0, rate |-> 0, msats |-> 0, done |-> FALSE]

(***************************************************************************)
(* The wallet and its callers.  Python's None is the string PyNone; a      *)
(* message is the pair of its fixed prefix and the text put after it.      *)
(***************************************************************************)
PyNone == "None"

\* `not x` for a string or None
Falsy(x) == x = PyNone \/ x = ""

\* cashu.core.base.Unit, the members the tests use
Units == {"sat", "usd", "eur", "msat"}

\* ZBDWallet.supported_units
supported_units == {"sat", "usd"}

\* settings.mint_zbd_api_key and settings.mint_zbd_callback_url
ApiKeys == {PyNone, "", "test_api_key"}
CallbackUrls == {PyNone, "https://example.com/webhook"}

\* no instance
NoWallet == [built |-> FALSE, unit |-> "", callback_url |-> "", client |-> FALSE]

\* no ZBDWallet(...) call yet: how the call ended ("ok" or the exception),
\* the steps of __init__ it went through, in order, and its inputs
NoCtor ==
    [outcome |-> "none", steps |-> <<>>, unit |-> "", api_key |-> PyNone,
     callback_url |-> PyNone]

\* a message: its fixed prefix and the text formatted into it; None is <<>>
NoMessage == <<>>
Message(prefix, text) == <<prefix, text>>

RECURSIVE str(_)
\* str(n) for an integer n >= 0: its decimal digits
str(n) ==
    LET digit == <<"0", "1", "2", "3", "4", "5", "6", "7", "8", "9">>[(n % 10) + 1]
    IN  IF n < 10 THEN <<digit>> ELSE Append(str(n \div 10), digit)

\* the json body of POST /v1/charges; NoPayload when none was built
NoPayload ==
    [built |-> FALSE, amount |-> <<>>, description |-> "", expiresIn |-> 0,
     callbackUrl |-> PyNone]

\* what a request to the ZBD API ends with: a 2xx body ("data") with the
\* fields of its data object (PyNone for an absent one), an
\* httpx.HTTPStatusError ("http") with the text of its response, or another
\* exception ("exc") with its text
NoReply ==
    [kind |-> "none", id |-> PyNone, request |-> PyNone, status |-> PyNone,
     balance_set |-> FALSE, balance |-> 0, text |-> ""]
ChargeReply(id, request) == [NoReply EXCEPT !.kind = "data", !.id = id, !.request = request]
StatusReply(status) == [NoReply EXCEPT !.kind = "data", !.status = status]
BalanceReply(b) == [NoReply EXCEPT !.kind = "data", !.balance_set = TRUE, !.balance = b]
EmptyReply == [NoReply EXCEPT !.kind = "data"]
HttpError(text) == [NoReply EXCEPT !.kind = "http", !.text = text]
OtherError(text) == [NoReply EXCEPT !.kind = "exc", !.text = text]

\* no method call in progress
NoCur ==
    [op |-> "", unit |-> "", amount |-> 0, memo |-> PyNone, rate |-> 0,
     rate_outcome |-> "none", resp |-> NoResponse,
     log |-> <<>>, payload |-> NoPayload]

\* no method call has ended, or one is in progress.  kind is "none", "raise" (exc is the exception)
\* or the class of the value returned; log is the requests the call sent,
\* in order; reply is the last reply it saw; rate_outcome and resp are how
\* the get_exchange_rate call made by create_invoice ended and the response
\* to its GET /v1/btcusd, "none" and NoResponse when there was none
NoRet ==
    [op |-> "", kind |-> "none", exc |-> "", ok |-> FALSE,
     checking_id |-> PyNone, payment_request |-> PyNone,
     error_message |-> NoMessage, result |-> "", balance |-> 0,
     balance_unit |-> "", unit |-> "", amount |-> 0, rate |-> 0,
     rate_outcome |-> "none", resp |-> NoResponse,
     log |-> <<>>, payload |-> NoPayload, reply |-> NoReply]

\* paid_invoices_stream() has not been iterated.  pc is where the generator
\* is suspended ("from_url", "subscribe", "listen", "yield", "finally") or
\* "idle" or "done"; inbound is the events pubsub.listen() has delivered;
\* yielded is the identifiers yielded; log is the calls made to the redis
\* package, in order; todo is the calls of the finally block not yet
\* returned; exit is what ended the loop; raised is the exception that left
\* the generator and message its text
NoStream ==
    [pc |-> "idle", installed |-> FALSE, redis_url |-> PyNone,
     inbound |-> <<>>, yielded |-> <<>>, log |-> <<>>, todo |-> <<>>,
     opened |-> FALSE, exit |-> "", raised |-> "", message |-> ""]

InitFacade ==
    /\ wallet = NoWallet
    /\ ctor = NoCtor
    /\ fpc = "idle"
    /\ cur = NoCur
    /\ ret = NoRet
    /\ nops = 0
    /\ stream = NoStream

Init ==
    /\ now = 0
    /\ rate_cache = NoCache
    /\ pc = [f \in Flows |-> "idle"]
    /\ started = [f \in Flows |-> NotStarted]
    /\ last = NoCall
    /\ ncalls = 0
    /\ requests = 0
    /\ hist = NoHist
    /\ conv = NoConv
    /\ InitFacade

\* time passes
AdvanceClock ==
    /\ now + Tick <= MaxNow
    /\ now' = now + Tick
    /\ UNCHANGED <<rate_cache, pc, started, last, ncalls, requests, hist, conv>>
    /\ UNCHANGED facadeVars

(***************************************************************************)
(* ZBDWallet.get_exchange_rate.  The coroutine runs without interruption   *)
(* up to `await self.client.get(...)`, is suspended there, and runs        *)
(* without interruption from the response to its return or raise.          *)
(***************************************************************************)

\* lines 155-157: the fresh-cache check made when the call starts
FreshHit(c, t) == c.set /\ is_fresh(c, t)

\* rate <= 0 and rate > 0 for a float
NonPositive(rate) == rate # NaN /\ rate <= 0
Positive(rate) == rate # NaN /\ rate > 0

\* a rate of zero accepted
ValidRate_accepts_zero(resp) == resp.kind = "data" /\ ~(resp.price # NaN /\ resp.price < 0)

\* lines 165-167: float(data.get("btcUsdPrice", 0)) is refused if <= 0
ValidRate(resp) == resp.kind = "data" /\ ~NonPositive(resp.price)

\* the RuntimeError raised without the text of the exception
FetchException_dropped(resp) == ""

\* the exception the try block of lines 160-171 ends with, "" when none
FetchException(resp) ==
    IF resp.kind = "exc" THEN resp.exc
    ELSE IF ~ValidRate(resp) THEN InvalidRateError
    ELSE ""

\* lines 173-176: the circuit breaker reads the cache as it is when the
\* fetch has failed
Fallback(c, t) == c.set /\ is_usable(c, t)

\* the fetched rate returned but not stored
OnResponse_no_store(c, resp, t) ==
    IF ValidRate(resp)
    THEN [cache |-> c, outcome |-> "fetched",
          result |-> resp.price, error |-> "", cause |-> ""]
    ELSE IF c.set /\ t - c.timestamp < RATE_CIRCUIT_BREAKER_TTL_SECONDS
    THEN [cache |-> c, outcome |-> "fallback",
          result |-> c.rate, error |-> "", cause |-> ""]
    ELSE [cache |-> c, outcome |-> "raised",
          result |-> 0, error |-> "RuntimeError",
          cause |-> IF resp.kind = "exc" THEN resp.exc ELSE InvalidRateError]

\* a usable cached rate preferred to the rate just fetched
OnResponse_prefers_cache(c, resp, t) ==
    IF c.set /\ t - c.timestamp < RATE_CIRCUIT_BREAKER_TTL_SECONDS
    THEN [cache |-> c, outcome |-> "fallback",
          result |-> c.rate, error |-> "", cause |-> ""]
    ELSE IF ValidRate(resp)
    THEN [cache |-> CachedRate(resp.price, t), outcome |-> "fetched",
          result |-> resp.price, error |-> "", cause |-> ""]
    ELSE [cache |-> c, outcome |-> "raised",
          result |-> 0, error |-> "RuntimeError",
          cause |-> IF resp.kind = "exc" THEN resp.exc ELSE InvalidRateError]

\* a timeout not given the circuit breaker
OnResponse_timeout_raises(c, resp, t) ==
    IF ValidRate(resp)
    THEN [cache |-> CachedRate(resp.price, t), outcome |-> "fetched",
          result |-> resp.price, error |-> "", cause |-> ""]
    ELSE IF c.set /\ t - c.timestamp < RATE_CIRCUIT_BREAKER_TTL_SECONDS
              /\ ~(resp.kind = "exc" /\ resp.exc = "TimeoutException")
    THEN [cache |-> c, outcome |-> "fallback",
          result |-> c.rate, error |-> "", cause |-> ""]
    ELSE [cache |-> c, outcome |-> "raised",
          result |-> 0, error |-> "RuntimeError",
          cause |-> IF resp.kind = "exc" THEN resp.exc ELSE InvalidRateError]

\* an expired entry evicted when the fetch fails
OnResponse_evicts_expired(c, resp, t) ==
    IF ValidRate(resp)
    THEN [cache |-> CachedRate(resp.price, t), outcome |-> "fetched",
          result |-> resp.price, error |-> "", cause |-> ""]
    ELSE IF c.set /\ t - c.timestamp < RATE_CIRCUIT_BREAKER_TTL_SECONDS
    THEN [cache |-> c, outcome |-> "fallback",
          result |-> c.rate, error |-> "", cause |-> ""]
    ELSE [cache |-> NoCache, outcome |-> "raised",
          result |-> 0, error |-> "RuntimeError",
          cause |-> IF resp.kind = "exc" THEN resp.exc ELSE InvalidRateError]

\* the fetched rate stored under the timestamp of the entry it replaces
OnResponse_keeps_timestamp(c, resp, t) ==
    IF ValidRate(resp)
    THEN [cache |-> CachedRate(resp.price, IF c.set THEN c.timestamp ELSE t),
          outcome |-> "fetched",
          result |-> resp.price, error |-> "", cause |-> ""]
    ELSE IF c.set /\ t - c.timestamp < RATE_CIRCUIT_BREAKER_TTL_SECONDS
    THEN [cache |-> c, outcome |-> "fallback",
          result |-> c.rate, error |-> "", cause |-> ""]
    ELSE [cache |-> c, outcome |-> "raised",
          result |-> 0, error |-> "RuntimeError",
          cause |-> IF resp.kind = "exc" THEN resp.exc ELSE InvalidRateError]

\* a fallback that stamps the entry it returns with the time of the read
OnResponse_fallback_renews(c, resp, t) ==
    IF ValidRate(resp)
    THEN [cache |-> CachedRate(resp.price, t), outcome |-> "fetched",
          result |-> resp.price, error |-> "", cause |-> ""]
    ELSE IF Fallback(c, t)
    THEN [cache |-> CachedRate(c.rate, t), outcome |-> "fallback",
          result |-> c.rate, error |-> "", cause |-> ""]
    ELSE [cache |-> c, outcome |-> "raised",
          result |-> 0, error |-> "RuntimeError", cause |-> FetchException(resp)]

\* lines 159-179: what the call does with the response resp when the cache
\* is c and the time is t: the cache it leaves, and how it ends
OnResponse(c, resp, t) ==
    IF ValidRate(resp)
    THEN [cache |-> CachedRate(resp.price, t), outcome |-> "fetched",
          result |-> resp.price, error |-> "", cause |-> ""]
    ELSE IF Fallback(c, t)
    THEN [cache |-> c, outcome |-> "fallback",
          result |-> c.rate, error |-> "", cause |-> ""]
    ELSE [cache |-> c, outcome |-> "raised",
          result |-> 0, error |-> "RuntimeError", cause |-> FetchException(resp)]

\* the call waits for a lock that a suspended call holds
get_exchange_rate_begin_locked(f) ==
    /\ \A g \in Flows : pc[g] # "fetching"
    /\ fpc = "idle"
    /\ pc[f] = "idle"
    /\ ncalls < MaxCalls
    /\ ncalls' = ncalls + 1
    /\ LET busy == \E g \in Flows : pc[g] = "fetching"
       IN  IF FreshHit(rate_cache, now)
           THEN /\ last' = [NoCall EXCEPT !.outcome = "fresh",
                                          !.result = rate_cache.rate,
                                          !.startAge = AgeOf(rate_cache, now),
                                          !.startRate = rate_cache.rate,
                                          !.endAge = AgeOf(rate_cache, now),
                                          !.endRate = rate_cache.rate,
                                          !.leftAge = AgeOf(rate_cache, now),
                                          !.leftRate = rate_cache.rate]
                /\ hist' = [hist EXCEPT !.overlap = @ \/ busy,
                                        !.lastStart = now,
                                        !.first = IF @ = "none" THEN "fresh" ELSE @,
                                        !.firstAt = IF hist.first = "none" THEN now ELSE @,
                                        !.returned = @ \cup {rate_cache.rate}]
                /\ UNCHANGED <<pc, started, requests>>
           ELSE /\ pc' = [pc EXCEPT ![f] = "fetching"]
                /\ started' = [started EXCEPT ![f] = StartedWith(rate_cache, now)]
                /\ requests' = requests + 1
                /\ hist' = [hist EXCEPT !.overlap = @ \/ busy,
                                        !.lastStart = now]
                /\ UNCHANGED last
    /\ UNCHANGED <<now, rate_cache, conv>>
    /\ UNCHANGED facadeVars

\* a call that starts while another is in flight waits for that one's
\* response and sends no request of its own
get_exchange_rate_begin_coalesced(f) ==
    /\ pc[f] = "idle"
    /\ ncalls < MaxCalls
    /\ ncalls' = ncalls + 1
    /\ LET busy == \E g \in Flows : pc[g] = "fetching"
       IN  IF FreshHit(rate_cache, now)
           THEN /\ last' = [NoCall EXCEPT !.outcome = "fresh",
                                          !.result = rate_cache.rate,
                                          !.startAge = AgeOf(rate_cache, now),
                                          !.startRate = rate_cache.rate,
                                          !.endAge = AgeOf(rate_cache, now),
                                          !.endRate = rate_cache.rate,
                                          !.leftAge = AgeOf(rate_cache, now),
                                          !.leftRate = rate_cache.rate]
                /\ hist' = [hist EXCEPT !.overlap = @ \/ busy,
                                        !.lastStart = now,
                                        !.first = IF @ = "none" THEN "fresh" ELSE @,
                                        !.firstAt = IF hist.first = "none" THEN now ELSE @,
                                        !.returned = @ \cup {rate_cache.rate}]
                /\ UNCHANGED <<pc, started, requests>>
           ELSE /\ pc' = [pc EXCEPT ![f] = "fetching"]
                /\ started' = [started EXCEPT ![f] = StartedWith(rate_cache, now)]
                /\ requests' = IF busy THEN requests ELSE requests + 1
                /\ hist' = [hist EXCEPT !.overlap = @ \/ busy,
                                        !.lastStart = now]
                /\ UNCHANGED last
    /\ UNCHANGED <<now, rate_cache, conv>>
    /\ UNCHANGED facadeVars

\* lines 155-161: the call starts; it returns the fresh cached rate at once
\* or sends GET /v1/btcusd and is suspended
get_exchange_rate_begin(f) ==
    /\ pc[f] = "idle"
    /\ ncalls < MaxCalls
    /\ ncalls' = ncalls + 1
    /\ LET busy == \E g \in Flows : pc[g] = "fetching"
       IN  IF FreshHit(rate_cache, now)
           THEN /\ last' = [NoCall EXCEPT !.outcome = "fresh",
                                          !.result = rate_cache.rate,
                                          !.startAge = AgeOf(rate_cache, now),
                                          !.startRate = rate_cache.rate,
                                          !.endAge = AgeOf(rate_cache, now),
                                          !.endRate = rate_cache.rate,
                                          !.leftAge = AgeOf(rate_cache, now),
                                          !.leftRate = rate_cache.rate]
                /\ hist' = [hist EXCEPT !.overlap = @ \/ busy,
                                        !.lastStart = now,
                                        !.first = IF @ = "none" THEN "fresh" ELSE @,
                                        !.firstAt = IF hist.first = "none" THEN now ELSE @,
                                        !.returned = @ \cup {rate_cache.rate}]
                /\ UNCHANGED <<pc, started, requests>>
           ELSE /\ pc' = [pc EXCEPT ![f] = "fetching"]
                /\ started' = [started EXCEPT ![f] = StartedWith(rate_cache, now)]
                /\ requests' = requests + 1
                /\ hist' = [hist EXCEPT !.overlap = @ \/ busy,
                                        !.lastStart = now]
                /\ UNCHANGED last
    /\ UNCHANGED <<now, rate_cache, conv>>
    /\ UNCHANGED facadeVars

\* the fallback decided on the cache entry the call found when it started
get_exchange_rate_resume_snapshot(f, resp) ==
    /\ pc[f] = "fetching"
    /\ LET atStart == IF started[f].age = NoAge THEN NoCache
                      ELSE CachedRate(started[f].rate, 0)
           r == IF ValidRate(resp) THEN OnResponse(rate_cache, resp, now)
                ELSE [OnResponse(atStart, resp, started[f].age) EXCEPT
                          !.cache = rate_cache]
       IN  /\ rate_cache' = r.cache
           /\ last' = [outcome |-> r.outcome, result |-> r.result,
                       error |-> r.error, cause |-> r.cause,
                       startAge |-> started[f].age, startRate |-> started[f].rate,
                       endAge |-> AgeOf(rate_cache, now), endRate |-> rate_cache.rate,
                       leftAge |-> AgeOf(r.cache, now), leftRate |-> r.cache.rate,
                       resp |-> resp, reqs |-> started[f].reqs]
           /\ hist' = [hist EXCEPT
                  !.first = IF @ = "none" THEN r.outcome ELSE @,
                  !.firstAt = IF hist.first = "none" THEN now ELSE @,
                  !.returned = IF r.outcome = "raised" THEN @ ELSE @ \cup {r.result},
                  !.raised = @ \/ r.outcome = "raised",
                  !.storedAt = IF r.outcome = "fetched" THEN now ELSE @,
                  !.fallbacks = IF r.outcome = "fetched" THEN 0
                                ELSE IF r.outcome = "fallback" THEN @ + 1
                                ELSE @]
    /\ pc' = [pc EXCEPT ![f] = "idle"]
    /\ started' = [started EXCEPT ![f] = NotStarted]
    /\ UNCHANGED <<now, ncalls, requests, conv>>
    /\ UNCHANGED facadeVars

\* the store stamped with the time the request was started
get_exchange_rate_resume_stamps_start(f, resp) ==
    /\ pc[f] = "fetching"
    /\ LET o == OnResponse(rate_cache, resp, now)
           r == IF o.outcome = "fetched"
                THEN [o EXCEPT !.cache = CachedRate(resp.price, started[f].at)]
                ELSE o
       IN  /\ rate_cache' = r.cache
           /\ last' = [outcome |-> r.outcome, result |-> r.result,
                       error |-> r.error, cause |-> r.cause,
                       startAge |-> started[f].age, startRate |-> started[f].rate,
                       endAge |-> AgeOf(rate_cache, now), endRate |-> rate_cache.rate,
                       leftAge |-> AgeOf(r.cache, now), leftRate |-> r.cache.rate,
                       resp |-> resp, reqs |-> started[f].reqs]
           /\ hist' = [hist EXCEPT
                  !.first = IF @ = "none" THEN r.outcome ELSE @,
                  !.firstAt = IF hist.first = "none" THEN now ELSE @,
                  !.returned = IF r.outcome = "raised" THEN @ ELSE @ \cup {r.result},
                  !.raised = @ \/ r.outcome = "raised",
                  !.storedAt = IF r.outcome = "fetched" THEN started[f].at ELSE @,
                  !.fallbacks = IF r.outcome = "fetched" THEN 0
                                ELSE IF r.outcome = "fallback" THEN @ + 1
                                ELSE @]
    /\ pc' = [pc EXCEPT ![f] = "idle"]
    /\ started' = [started EXCEPT ![f] = NotStarted]
    /\ UNCHANGED <<now, ncalls, requests, conv>>
    /\ UNCHANGED facadeVars

\* lines 161-179: the response (or the exception) of client.get arrives and
\* the call runs to its end
get_exchange_rate_resume(f, resp) ==
    /\ pc[f] = "fetching"
    /\ LET r == OnResponse(rate_cache, resp, now)
       IN  /\ rate_cache' = r.cache
           /\ last' = [outcome |-> r.outcome, result |-> r.result,
                       error |-> r.error, cause |-> r.cause,
                       startAge |-> started[f].age, startRate |-> started[f].rate,
                       endAge |-> AgeOf(rate_cache, now), endRate |-> rate_cache.rate,
                       leftAge |-> AgeOf(r.cache, now), leftRate |-> r.cache.rate,
                       resp |-> resp, reqs |-> started[f].reqs]
           /\ hist' = [hist EXCEPT
                  !.first = IF @ = "none" THEN r.outcome ELSE @,
                  !.firstAt = IF hist.first = "none" THEN now ELSE @,
                  !.returned = IF r.outcome = "raised" THEN @ ELSE @ \cup {r.result},
                  !.raised = @ \/ r.outcome = "raised",
                  !.storedAt = IF r.outcome = "fetched" THEN now ELSE @,
                  !.fallbacks = IF r.outcome = "fetched" THEN 0
                                ELSE IF r.outcome = "fallback" THEN @ + 1
                                ELSE @]
    /\ pc' = [pc EXCEPT ![f] = "idle"]
    /\ started' = [started EXCEPT ![f] = NotStarted]
    /\ UNCHANGED <<now, ncalls, requests, conv>>
    /\ UNCHANGED facadeVars

Responses ==
    {DataResponse(p) : p \in Prices} \cup {ExcResponse(e) : e \in FetchErrors}

Next ==
    \/ AdvanceClock
    \/ \E f \in Flows : get_exchange_rate_begin(f)
    \/ \E f \in Flows, resp \in Responses : get_exchange_rate_resume(f, resp)

Spec == Init /\ [][Next]_vars

(***************************************************************************)
(* cents_to_msats on its own: the arguments are drawn by the initial       *)
(* state, the call computes the result.                                    *)
(***************************************************************************)
InitConv ==
    /\ now = 0
    /\ rate_cache = NoCache
    /\ pc = [f \in Flows |-> "idle"]
    /\ started = [f \in Flows |-> NotStarted]
    /\ last = NoCall
    /\ ncalls = 0
    /\ requests = 0
    /\ hist = NoHist
    /\ \E c \in 0..MaxCents, r \in ConvRates :
           conv = [cents |-> c, rate |-> r, msats |-> 0, done |-> FALSE]
    /\ InitFacade

Convert ==
    /\ ~conv.done
    /\ conv' = [conv EXCEPT !.msats = cents_to_msats(conv.cents, conv.rate),
                            !.done = TRUE]
    /\ UNCHANGED <<now, rate_cache, pc, started, last, ncalls, requests, hist>>
    /\ UNCHANGED facadeVars

NextConv == Convert

SpecConv == InitConv /\ [][NextConv]_vars

(***************************************************************************)
(* ZBDWallet.__init__                                                      *)
(***************************************************************************)

\* LightningBackend.assert_unit_supported: raises Unsupported for a unit
\* that is not in supported_units
assert_unit_supported(unit) == unit \in supported_units

\* __init__ with the API key looked at before the unit
ZBDWallet_init_key_first(unit, api_key, callback_url) ==
    IF Falsy(api_key)
    THEN [outcome |-> "ValueError", steps |-> <<"api_key">>, wallet |-> NoWallet]
    ELSE IF ~(unit \in supported_units)
    THEN [outcome |-> "Unsupported",
          steps |-> <<"api_key", "assert_unit_supported">>,
          wallet |-> NoWallet]
    ELSE [outcome |-> "ok",
          steps |-> <<"api_key", "assert_unit_supported", "client">>,
          wallet |-> [built |-> TRUE, unit |-> unit,
                      callback_url |-> IF Falsy(callback_url) THEN "" ELSE callback_url,
                      client |-> TRUE]]

\* an empty API key taken for a key
ZBDWallet_init_empty_key_ok(unit, api_key, callback_url) ==
    IF ~assert_unit_supported(unit)
    THEN [outcome |-> "Unsupported", steps |-> <<"assert_unit_supported">>,
          wallet |-> NoWallet]
    ELSE IF api_key = PyNone
    THEN [outcome |-> "ValueError", steps |-> <<"assert_unit_supported", "api_key">>,
          wallet |-> NoWallet]
    ELSE [outcome |-> "ok", steps |-> <<"assert_unit_supported", "api_key", "client">>,
          wallet |-> [built |-> TRUE, unit |-> unit,
                      callback_url |-> IF Falsy(callback_url) THEN "" ELSE callback_url,
                      client |-> TRUE]]

\* lines 102-114: how ZBDWallet(unit) ends under the given settings, the
\* steps it went through, and the instance it leaves
ZBDWallet_init(unit, api_key, callback_url) ==
    IF ~assert_unit_supported(unit)
    THEN [outcome |-> "Unsupported", steps |-> <<"assert_unit_supported">>,
          wallet |-> NoWallet]
    ELSE IF Falsy(api_key)
    THEN [outcome |-> "ValueError",
          steps |-> <<"assert_unit_supported", "api_key">>,
          wallet |-> NoWallet]
    ELSE [outcome |-> "ok",
          steps |-> <<"assert_unit_supported", "api_key", "client">>,
          wallet |-> [built |-> TRUE, unit |-> unit,
                      callback_url |-> IF Falsy(callback_url) THEN "" ELSE callback_url,
                      client |-> TRUE]]

\* ZBDWallet(unit) is called, with some settings
Construct(unit, api_key, callback_url) ==
    /\ ~wallet.built
    /\ LET r == ZBDWallet_init(unit, api_key, callback_url)
       IN  /\ ctor' = [outcome |-> r.outcome, steps |-> r.steps,
                       unit |-> unit, api_key |-> api_key,
                       callback_url |-> callback_url]
           /\ wallet' = r.wallet
    /\ UNCHANGED <<now, rate_cache, pc, started, last, ncalls, requests, hist, conv>>
    /\ UNCHANGED <<fpc, cur, ret, nops, stream>>

(***************************************************************************)
(* pay_invoice, get_payment_status, get_payment_quote                      *)
(***************************************************************************)
MeltOps == {"pay_invoice", "get_payment_status", "get_payment_quote"}

\* get_payment_status answering UNKNOWN instead of raising
melt_answers(op) ==
    IF op = "get_payment_status"
    THEN [NoRet EXCEPT !.op = op, !.kind = "PaymentStatus", !.result = "UNKNOWN"]
    ELSE [NoRet EXCEPT !.op = op, !.kind = "raise", !.exc = "Unsupported"]

\* lines 313, 326, 341: what the call gives
melt(op) == [NoRet EXCEPT !.op = op, !.kind = "raise", !.exc = "Unsupported"]

\* a melt method is called; it can be while another call is suspended
Melt(op) ==
    /\ wallet.built
    /\ nops < MaxOps
    /\ nops' = nops + 1
    /\ ret' = melt(op)
    /\ UNCHANGED <<now, rate_cache, pc, started, last, ncalls, requests, hist, conv>>
    /\ UNCHANGED <<wallet, ctor, fpc, cur, stream>>

(***************************************************************************)
(* ZBDWallet.status                                                        *)
(***************************************************************************)

\* the method call in progress ends with the value or exception r
Finish(r, reply) ==
    /\ ret' = [r EXCEPT !.op = cur.op, !.unit = cur.unit, !.amount = cur.amount,
                        !.rate = cur.rate, !.rate_outcome = cur.rate_outcome,
                        !.resp = cur.resp, !.log = cur.log,
                        !.payload = cur.payload, !.reply = reply]
    /\ cur' = NoCur
    /\ fpc' = "idle"

\* the balance divided by 1000 rounded to the nearest satoshi
status_result_rounded(reply) ==
    IF reply.kind = "data"
    THEN [NoRet EXCEPT !.kind = "StatusResponse",
                       !.balance = (IF reply.balance_set THEN reply.balance ELSE 0)
                                       \div 1000
                                   + (IF reply.balance % 1000 >= 500 THEN 1 ELSE 0),
                       !.balance_unit = "sat"]
    ELSE [NoRet EXCEPT !.kind = "StatusResponse",
                       !.error_message = Message("ZBD status check failed: ", reply.text),
                       !.balance = 0, !.balance_unit = "sat"]

\* a failure passed on instead of answered
status_result_raises(reply) ==
    IF reply.kind = "data"
    THEN [NoRet EXCEPT !.kind = "StatusResponse",
                       !.balance = (IF reply.balance_set THEN reply.balance ELSE 0)
                                       \div 1000,
                       !.balance_unit = "sat"]
    ELSE [NoRet EXCEPT !.kind = "raise", !.exc = "Exception"]

\* lines 122-139: the StatusResponse for the reply of GET /v1/wallet
status_result(reply) ==
    IF reply.kind = "data"
    THEN [NoRet EXCEPT !.kind = "StatusResponse",
                       !.balance = (IF reply.balance_set THEN reply.balance ELSE 0)
                                       \div 1000,
                       !.balance_unit = "sat"]
    ELSE [NoRet EXCEPT !.kind = "StatusResponse",
                       !.error_message = Message("ZBD status check failed: ", reply.text),
                       !.balance = 0, !.balance_unit = "sat"]

\* line 123: status() is called and sends GET /v1/wallet
status_begin ==
    /\ wallet.built
    /\ fpc = "idle"
    /\ nops < MaxOps
    /\ nops' = nops + 1
    /\ cur' = [NoCur EXCEPT !.op = "status", !.log = <<"GET /v1/wallet">>]
    /\ ret' = NoRet
    /\ fpc' = "balance"
    /\ UNCHANGED <<now, rate_cache, pc, started, last, ncalls, requests, hist, conv>>
    /\ UNCHANGED <<wallet, ctor, stream>>

\* lines 123-139: the reply arrives
status_resume(reply) ==
    /\ fpc = "balance"
    /\ Finish(status_result(reply), reply)
    /\ UNCHANGED <<now, rate_cache, pc, started, last, ncalls, requests, hist, conv>>
    /\ UNCHANGED <<wallet, ctor, nops, stream>>

BalanceReplies ==
    {BalanceReply(b) : b \in Balances} \cup {EmptyReply}
        \cup {HttpError("Unauthorized"), OtherError("ReadTimeout")}

(***************************************************************************)
(* ZBDWallet.get_invoice_status                                            *)
(***************************************************************************)

\* an unknown status taken for a failure
INVOICE_STATUS_MAP_get_failed(status) ==
    IF status = "pending" THEN "PENDING"
    ELSE IF status = "completed" THEN "SETTLED"
    ELSE "FAILED"

\* lines 35-40, 290: INVOICE_STATUS_MAP.get(status, PaymentResult.UNKNOWN)
INVOICE_STATUS_MAP_get(status) ==
    IF status = "pending" THEN "PENDING"
    ELSE IF status = "completed" THEN "SETTLED"
    ELSE IF status = "expired" THEN "FAILED"
    ELSE IF status = "error" THEN "FAILED"
    ELSE "UNKNOWN"

\* a failure answered as PENDING
invoice_status_result_pending(reply) ==
    IF reply.kind = "data"
    THEN [NoRet EXCEPT !.kind = "PaymentStatus",
                       !.result = INVOICE_STATUS_MAP_get(
                           IF reply.status = PyNone THEN "pending" ELSE reply.status)]
    ELSE [NoRet EXCEPT !.kind = "PaymentStatus", !.result = "PENDING"]

\* a failed request answered as FAILED
invoice_status_result_failed(reply) ==
    IF reply.kind = "data"
    THEN [NoRet EXCEPT !.kind = "PaymentStatus",
                       !.result = INVOICE_STATUS_MAP_get(
                           IF reply.status = PyNone THEN "pending" ELSE reply.status)]
    ELSE [NoRet EXCEPT !.kind = "PaymentStatus", !.result = "FAILED",
                       !.error_message =
                           Message("ZBD get_invoice_status failed: ", reply.text)]

\* lines 283-296: the PaymentStatus for the reply of GET /v1/charges/{id}
invoice_status_result(reply) ==
    IF reply.kind = "data"
    THEN [NoRet EXCEPT !.kind = "PaymentStatus",
                       !.result = INVOICE_STATUS_MAP_get(
                           IF reply.status = PyNone THEN "pending" ELSE reply.status)]
    ELSE [NoRet EXCEPT !.kind = "PaymentStatus", !.result = "UNKNOWN",
                       !.error_message =
                           Message("ZBD get_invoice_status failed: ", reply.text)]

\* line 284: get_invoice_status is called and sends GET /v1/charges/{id}
get_invoice_status_begin ==
    /\ wallet.built
    /\ fpc = "idle"
    /\ nops < MaxOps
    /\ nops' = nops + 1
    /\ cur' = [NoCur EXCEPT !.op = "get_invoice_status",
                            !.log = <<"GET /v1/charges/{id}">>]
    /\ ret' = NoRet
    /\ fpc' = "status"
    /\ UNCHANGED <<now, rate_cache, pc, started, last, ncalls, requests, hist, conv>>
    /\ UNCHANGED <<wallet, ctor, stream>>

\* lines 284-296: the reply arrives
get_invoice_status_resume(reply) ==
    /\ fpc = "status"
    /\ Finish(invoice_status_result(reply), reply)
    /\ UNCHANGED <<now, rate_cache, pc, started, last, ncalls, requests, hist, conv>>
    /\ UNCHANGED <<wallet, ctor, nops, stream>>

StatusReplies ==
    {StatusReply(st) : st \in ChargeStatuses} \cup {EmptyReply}
        \cup {HttpError("Not Found"), OtherError("Network error"),
              OtherError("ReadTimeout")}

(***************************************************************************)
(* ZBDWallet.create_invoice.  The coroutine is suspended at                *)
(* `await self.client.get(...)` inside get_exchange_rate, when the amount  *)
(* is in usd and the cached rate is not fresh, and at                      *)
(* `await self.client.post(...)`.                                          *)
(***************************************************************************)

\* the satoshis sent as they are
amount_msats_unscaled(unit, amount, rate) ==
    IF unit = "sat" THEN str(amount) ELSE str(cents_to_msats(amount, rate))

\* lines 226-231: the amount in millisatoshis, as the string sent
amount_msats(unit, amount, rate) ==
    IF unit = "sat" THEN str(amount * 1000) ELSE str(cents_to_msats(amount, rate))

\* the callbackUrl field added whatever the configuration is
payload_always_callback(msats, memo, callback_url) ==
    [built |-> TRUE, amount |-> msats,
     description |-> IF Falsy(memo) THEN "Wavlake streaming credits" ELSE memo,
     expiresIn |-> 900,
     callbackUrl |-> callback_url]

\* lines 243-251: the json body of POST /v1/charges
payload(msats, memo, callback_url) ==
    [built |-> TRUE, amount |-> msats,
     description |-> IF Falsy(memo) THEN "Wavlake streaming credits" ELSE memo,
     expiresIn |-> 900,
     callbackUrl |-> IF Falsy(callback_url) THEN PyNone ELSE callback_url]

\* lines 232-236: the answer to a unit that is neither sat nor usd
unit_error_result ==
    [NoRet EXCEPT !.kind = "InvoiceResponse", !.ok = FALSE,
                  !.error_message = Message("Unsupported unit: ", "unit")]

\* the RuntimeError passed on to the caller
rate_error_result_raises(cause) ==
    [NoRet EXCEPT !.kind = "raise", !.exc = "RuntimeError"]

\* lines 237-241: the answer to the RuntimeError of get_exchange_rate
rate_error_result(cause) ==
    [NoRet EXCEPT !.kind = "InvoiceResponse", !.ok = FALSE,
                  !.error_message =
                      <<"Exchange rate error: ",
                        "Failed to fetch exchange rate from ZBD: ", cause>>]

\* an exception that is not an HTTPStatusError passed on to the caller
charge_result_raises(reply) ==
    IF reply.kind = "data"
    THEN [NoRet EXCEPT !.kind = "InvoiceResponse", !.ok = TRUE,
                       !.checking_id = reply.id,
                       !.payment_request = reply.request]
    ELSE IF reply.kind = "http"
    THEN [NoRet EXCEPT !.kind = "InvoiceResponse", !.ok = FALSE,
                       !.error_message =
                           Message("ZBD create_invoice failed: ", reply.text)]
    ELSE [NoRet EXCEPT !.kind = "raise", !.exc = "Exception"]

\* lines 253-272: the InvoiceResponse for the reply of POST /v1/charges
charge_result(reply) ==
    IF reply.kind = "data"
    THEN [NoRet EXCEPT !.kind = "InvoiceResponse", !.ok = TRUE,
                       !.checking_id = reply.id,
                       !.payment_request = reply.request]
    ELSE IF reply.kind = "http"
    THEN [NoRet EXCEPT !.kind = "InvoiceResponse", !.ok = FALSE,
                       !.error_message =
                           Message("ZBD create_invoice failed: ", reply.text)]
    ELSE [NoRet EXCEPT !.kind = "InvoiceResponse", !.ok = FALSE,
                       !.error_message =
                           Message("ZBD create_invoice failed: ", reply.text)]

\* the amount converted at the rate the cache holds, not at the one returned
SendCharge_rereads_cache(c, rate) ==
    [c EXCEPT !.rate = rate,
              !.payload = payload(amount_msats(c.unit, c.amount,
                                               IF rate_cache.set THEN rate_cache.rate
                                                                 ELSE rate),
                                  c.memo, wallet.callback_url),
              !.log = Append(@, "POST /v1/charges")]

\* lines 243-254: the payload is built and POST /v1/charges is sent
SendCharge(c, rate) ==
    [c EXCEPT !.rate = rate,
              !.payload = payload(amount_msats(c.unit, c.amount, rate), c.memo,
                                  wallet.callback_url),
              !.log = Append(@, "POST /v1/charges")]

\* lines 196, 231: int() of a NaN raises ValueError, which the
\* `except RuntimeError` of line 237 does not catch
conversion_error_result == [NoRet EXCEPT !.kind = "raise", !.exc = "ValueError"]

\* the conversion chosen by the unit the instance was constructed with
create_invoice_begin_by_wallet_unit(unit, amount, memo) ==
    /\ wallet.built
    /\ fpc = "idle"
    /\ nops < MaxOps
    /\ nops' = nops + 1
    /\ LET c == [NoCur EXCEPT !.op = "create_invoice", !.unit = unit,
                              !.amount = amount, !.memo = memo]
           charge(d, rate, msats) ==
               [d EXCEPT !.rate = rate,
                         !.payload = payload(msats, d.memo, wallet.callback_url),
                         !.log = Append(@, "POST /v1/charges")]
       IN  IF ~assert_unit_supported(unit)
           THEN /\ ret' = [NoRet EXCEPT !.op = "create_invoice", !.kind = "raise",
                                        !.exc = "Unsupported", !.unit = unit,
                                        !.amount = amount]
                /\ UNCHANGED <<fpc, cur, requests>>
           ELSE IF wallet.unit = "sat"
           THEN /\ cur' = charge(c, 0, str(amount * 1000))
                /\ fpc' = "charge"
                /\ ret' = NoRet
                /\ UNCHANGED requests
           ELSE IF FreshHit(rate_cache, now)
           THEN /\ cur' = charge([c EXCEPT !.rate_outcome = "fresh"], rate_cache.rate,
                                 str(cents_to_msats(amount, rate_cache.rate)))
                /\ fpc' = "charge"
                /\ ret' = NoRet
                /\ UNCHANGED requests
           ELSE /\ cur' = [c EXCEPT !.log = <<"GET /v1/btcusd">>]
                /\ fpc' = "rate"
                /\ requests' = requests + 1
                /\ ret' = NoRet
    /\ UNCHANGED <<now, rate_cache, pc, started, last, ncalls, hist, conv>>
    /\ UNCHANGED <<wallet, ctor, stream>>

\* lines 222-254: create_invoice is called; it raises, returns, or is
\* suspended at the GET of get_exchange_rate or at the POST
create_invoice_begin(unit, amount, memo) ==
    /\ wallet.built
    /\ fpc = "idle"
    /\ nops < MaxOps
    /\ nops' = nops + 1
    /\ LET c == [NoCur EXCEPT !.op = "create_invoice", !.unit = unit,
                              !.amount = amount, !.memo = memo]
       IN  IF ~assert_unit_supported(unit)
           THEN /\ ret' = [NoRet EXCEPT !.op = "create_invoice", !.kind = "raise",
                                        !.exc = "Unsupported", !.unit = unit,
                                        !.amount = amount]
                /\ UNCHANGED <<fpc, cur, requests>>
           ELSE IF unit = "sat"
           THEN /\ cur' = SendCharge(c, 0)
                /\ fpc' = "charge"
                /\ ret' = NoRet
                /\ UNCHANGED requests
           ELSE IF unit = "usd"
           THEN IF FreshHit(rate_cache, now) /\ rate_cache.rate = NaN
                THEN /\ ret' = [conversion_error_result EXCEPT
                                    !.op = "create_invoice", !.unit = unit,
                                    !.amount = amount, !.rate = NaN,
                                    !.rate_outcome = "fresh"]
                     /\ UNCHANGED <<fpc, cur, requests>>
                ELSE IF FreshHit(rate_cache, now)
                THEN /\ cur' = SendCharge([c EXCEPT !.rate_outcome = "fresh"],
                                          rate_cache.rate)
                     /\ fpc' = "charge"
                     /\ ret' = NoRet
                     /\ UNCHANGED requests
                ELSE /\ cur' = [c EXCEPT !.log = <<"GET /v1/btcusd">>]
                     /\ fpc' = "rate"
                     /\ requests' = requests + 1
                     /\ ret' = NoRet
           ELSE /\ ret' = [unit_error_result EXCEPT !.op = "create_invoice",
                                                    !.unit = unit, !.amount = amount]
                /\ UNCHANGED <<fpc, cur, requests>>
    /\ UNCHANGED <<now, rate_cache, pc, started, last, ncalls, hist, conv>>
    /\ UNCHANGED <<wallet, ctor, stream>>

\* lines 230-254 with 161-179: the response to GET /v1/btcusd arrives;
\* create_invoice returns the rate error or sends POST /v1/charges
create_invoice_rate(resp) ==
    /\ fpc = "rate"
    /\ LET r == OnResponse(rate_cache, resp, now)
           c == [cur EXCEPT !.rate_outcome = r.outcome, !.resp = resp]
       IN  /\ rate_cache' = r.cache
           /\ IF r.outcome = "raised"
              THEN /\ ret' = [rate_error_result(r.cause) EXCEPT
                                  !.op = c.op, !.unit = c.unit, !.amount = c.amount,
                                  !.rate_outcome = c.rate_outcome, !.resp = c.resp,
                                  !.log = c.log]
                   /\ cur' = NoCur
                   /\ fpc' = "idle"
              ELSE IF r.result = NaN
              THEN /\ ret' = [conversion_error_result EXCEPT
                                  !.op = c.op, !.unit = c.unit, !.amount = c.amount,
                                  !.rate = NaN,
                                  !.rate_outcome = c.rate_outcome, !.resp = c.resp,
                                  !.log = c.log]
                   /\ cur' = NoCur
                   /\ fpc' = "idle"
              ELSE /\ cur' = SendCharge(c, r.result)
                   /\ fpc' = "charge"
                   /\ UNCHANGED ret
           /\ hist' = [hist EXCEPT
                  !.storedAt = IF r.outcome = "fetched" THEN now ELSE @,
                  !.fallbacks = IF r.outcome = "fetched" THEN 0
                                ELSE IF r.outcome = "fallback" THEN @ + 1
                                ELSE @]
    /\ UNCHANGED <<now, pc, started, last, ncalls, requests, conv>>
    /\ UNCHANGED <<wallet, ctor, nops, stream>>

\* lines 254-272: the reply to POST /v1/charges arrives
create_invoice_charge(reply) ==
    /\ fpc = "charge"
    /\ Finish(charge_result(reply), reply)
    /\ UNCHANGED <<now, rate_cache, pc, started, last, ncalls, requests, hist, conv>>
    /\ UNCHANGED <<wallet, ctor, nops, stream>>

\* the responses to the GET /v1/btcusd of create_invoice
RateResponses ==
    {DataResponse(100000), DataResponse(0), ExcResponse("TimeoutException")}

ChargeReplies ==
    {ChargeReply(id, request) : id \in {PyNone, "charge_123"},
                                request \in {PyNone, "lnbc1000n1..."}}
        \cup {HttpError("Bad Request"), HttpError(""),
              OtherError("Connection refused"), OtherError("ReadTimeout")}

(***************************************************************************)
(* One caller of a wallet: it constructs the wallet and calls its methods  *)
(* one after the other, while time passes.                                 *)
(***************************************************************************)
NextFacade ==
    \/ AdvanceClock
    \/ \E unit \in Units, api_key \in ApiKeys, callback_url \in CallbackUrls :
           Construct(unit, api_key, callback_url)
    \/ \E op \in MeltOps : Melt(op)
    \/ status_begin
    \/ \E reply \in BalanceReplies : status_resume(reply)
    \/ get_invoice_status_begin
    \/ \E reply \in StatusReplies : get_invoice_status_resume(reply)
    \/ \E unit \in Units, amount \in Amounts, memo \in Memos :
           create_invoice_begin(unit, amount, memo)
    \/ \E resp \in RateResponses : create_invoice_rate(resp)
    \/ \E reply \in ChargeReplies : create_invoice_charge(reply)

SpecFacade == Init /\ [][NextFacade]_vars

(***************************************************************************)
(* ZBDWallet.paid_invoices_stream.  The generator is suspended at          *)
(* `await aioredis.from_url(...)`, at `await pubsub.subscribe(...)`, in    *)
(* `pubsub.listen()` waiting for the next event, at `yield`, and at the    *)
(* two awaits of the finally block.  The redis package is not part of the  *)
(* program: each of its calls returns or raises.                           *)
(***************************************************************************)

\* the characters of the identifiers published, by their code
Chr == (97 :> "a" @@ 98 :> "b" @@ 49 :> "1" @@ 50 :> "2")

\* line 379: bytes.decode(), the characters of the bytes
decode(bytes) == [i \in 1..Len(bytes) |-> Chr[bytes[i]]]

\* an event of pubsub.listen(): its type and its data (the bytes published
\* for a message; the data of the other events is not looked at)
Event(type, data) == [type |-> type, data |-> data]

Events ==
    {Event("subscribe", <<>>), Event("message", <<97, 49>>),
     Event("message", <<98, 50>>), Event("pmessage", <<97, 49>>)}

\* whether `import redis.asyncio` succeeds, and settings.mint_redis_url
RedisInstalled == {TRUE, FALSE}
RedisUrls == {PyNone, "", "redis://localhost:6379"}

\* how an awaited call to the redis package ends
BrokerOutcomes == {"ok", "ConnectionError", "CancelledError"}

\* how the wait in pubsub.listen() ends other than with an event: the task
\* is cancelled, the connection fails, or the iterator ends
ListenExits == {"CancelledError", "ConnectionError", "StopAsyncIteration"}

\* an empty MINT_REDIS_URL taken for a URL
stream_config_error_none_only(installed, redis_url) ==
    IF ~installed
    THEN "redis package required for paid_invoices_stream. Install with: pip install redis"
    ELSE IF redis_url = PyNone
    THEN "MINT_REDIS_URL environment variable required for paid_invoices_stream"
    ELSE ""

\* lines 358-370: the text of the RuntimeError raised before anything is
\* awaited, "" when none is raised
stream_config_error(installed, redis_url) ==
    IF ~installed
    THEN "redis package required for paid_invoices_stream. Install with: pip install redis"
    ELSE IF Falsy(redis_url)
    THEN "MINT_REDIS_URL environment variable required for paid_invoices_stream"
    ELSE ""

\* every event that is not a subscribe confirmation yielded
Yields_all_but_subscribe(event) == event.type # "subscribe"

\* line 378: the events that are yielded
Yields(event) == event.type = "message"

\* lines 382-383: the calls of the finally block, in order
cleanup == <<"unsubscribe", "close">>

\* the connection closed before the topic is left
Finally_close_first(cause) ==
    [stream EXCEPT !.pc = "finally", !.exit = cause,
                   !.todo = <<"close", "unsubscribe">>,
                   !.log = Append(@, "close")]

\* lines 381-382: the loop is left because of `cause` and the finally block
\* makes its first call
Finally(cause) ==
    [stream EXCEPT !.pc = "finally", !.exit = cause, !.todo = cleanup,
                   !.log = Append(@, Head(cleanup))]

\* lines 358-372: the first __anext__() of the generator
stream_begin(installed, redis_url) ==
    /\ wallet.built
    /\ stream.pc = "idle"
    /\ LET e == stream_config_error(installed, redis_url)
           st == [stream EXCEPT !.installed = installed, !.redis_url = redis_url]
       IN  IF e # ""
           THEN stream' = [st EXCEPT !.pc = "done", !.raised = "RuntimeError",
                                     !.message = e]
           ELSE stream' = [st EXCEPT !.pc = "from_url", !.log = <<"from_url">>]
    /\ UNCHANGED <<now, rate_cache, pc, started, last, ncalls, requests, hist, conv>>
    /\ UNCHANGED <<wallet, ctor, fpc, cur, ret, nops>>

\* lines 372-374: aioredis.from_url returns the client or raises
stream_from_url(outcome) ==
    /\ stream.pc = "from_url"
    /\ IF outcome = "ok"
       THEN stream' = [stream EXCEPT !.pc = "subscribe", !.opened = TRUE,
                                     !.log = Append(@, "subscribe")]
       ELSE stream' = [stream EXCEPT !.pc = "done", !.raised = outcome]
    /\ UNCHANGED <<now, rate_cache, pc, started, last, ncalls, requests, hist, conv>>
    /\ UNCHANGED <<wallet, ctor, fpc, cur, ret, nops>>

\* lines 374-377: pubsub.subscribe returns, and the loop starts to wait, or
\* raises, and the exception leaves the generator
stream_subscribe(outcome) ==
    /\ stream.pc = "subscribe"
    /\ IF outcome = "ok"
       THEN stream' = [stream EXCEPT !.pc = "listen"]
       ELSE stream' = [stream EXCEPT !.pc = "done", !.raised = outcome]
    /\ UNCHANGED <<now, rate_cache, pc, started, last, ncalls, requests, hist, conv>>
    /\ UNCHANGED <<wallet, ctor, fpc, cur, ret, nops>>

\* lines 377-380: pubsub.listen() delivers an event
stream_message(event) ==
    /\ stream.pc = "listen"
    /\ Len(stream.inbound) < MaxEvents
    /\ IF Yields(event)
       THEN stream' = [stream EXCEPT !.inbound = Append(@, event),
                                     !.yielded = Append(@, decode(event.data)),
                                     !.pc = "yield"]
       ELSE stream' = [stream EXCEPT !.inbound = Append(@, event)]
    /\ UNCHANGED <<now, rate_cache, pc, started, last, ncalls, requests, hist, conv>>
    /\ UNCHANGED <<wallet, ctor, fpc, cur, ret, nops>>

\* lines 380, 377: the consumer asks for the next identifier
stream_next ==
    /\ stream.pc = "yield"
    /\ stream' = [stream EXCEPT !.pc = "listen"]
    /\ UNCHANGED <<now, rate_cache, pc, started, last, ncalls, requests, hist, conv>>
    /\ UNCHANGED <<wallet, ctor, fpc, cur, ret, nops>>

\* lines 380-382: the consumer has stopped and the generator is closed
\* (aclose() throws GeneratorExit at the yield)
stream_aclose ==
    /\ stream.pc = "yield"
    /\ stream' = Finally("GeneratorExit")
    /\ UNCHANGED <<now, rate_cache, pc, started, last, ncalls, requests, hist, conv>>
    /\ UNCHANGED <<wallet, ctor, fpc, cur, ret, nops>>

\* lines 377-382: the wait for the next event ends without an event
stream_listen_exit(cause) ==
    /\ stream.pc = "listen"
    /\ stream' = Finally(cause)
    /\ UNCHANGED <<now, rate_cache, pc, started, last, ncalls, requests, hist, conv>>
    /\ UNCHANGED <<wallet, ctor, fpc, cur, ret, nops>>

\* lines 382-383: the call of the finally block that is awaited returns, and
\* the next one is made or the generator ends, or it raises, and the
\* exception leaves the generator
stream_cleanup(outcome) ==
    /\ stream.pc = "finally"
    /\ IF outcome # "ok"
       THEN stream' = [stream EXCEPT !.pc = "done", !.raised = outcome]
       ELSE IF Len(stream.todo) > 1
       THEN stream' = [stream EXCEPT !.todo = Tail(@),
                                     !.log = Append(@, stream.todo[2])]
       ELSE stream' = [stream EXCEPT
                !.pc = "done", !.todo = <<>>,
                !.raised = IF stream.exit \in {"GeneratorExit", "StopAsyncIteration"}
                           THEN "" ELSE stream.exit]
    /\ UNCHANGED <<now, rate_cache, pc, started, last, ncalls, requests, hist, conv>>
    /\ UNCHANGED <<wallet, ctor, fpc, cur, ret, nops>>

NextStream ==
    \/ \E unit \in Units, api_key \in ApiKeys, callback_url \in CallbackUrls :
           Construct(unit, api_key, callback_url)
    \/ \E installed \in RedisInstalled, redis_url \in RedisUrls :
           stream_begin(installed, redis_url)
    \/ \E outcome \in BrokerOutcomes : stream_from_url(outcome)
    \/ \E outcome \in BrokerOutcomes : stream_subscribe(outcome)
    \/ \E event \in Events : stream_message(event)
    \/ stream_next
    \/ stream_aclose
    \/ \E cause \in ListenExits : stream_listen_exit(cause)
    \/ \E outcome \in BrokerOutcomes : stream_cleanup(outcome)

SpecStream == Init /\ [][NextStream]_vars

(***************************************************************************)
(* Concurrent callers: the flows that call get_exchange_rate and a caller  *)
(* of status, get_invoice_status and create_invoice, on one event loop.    *)
(* Any of them can be suspended in its remote call while the others run.   *)
(***************************************************************************)
\* the responses to the GET /v1/btcusd of the get_exchange_rate callers
ConcurrentResponses ==
    {DataResponse(96000), DataResponse(0), ExcResponse("TimeoutException")}

NextConcurrent ==
    \/ \E callback_url \in {"", "https://example.com/webhook"} :
           Construct("usd", "test_api_key", callback_url)
    \/ \E f \in Flows : get_exchange_rate_begin(f)
    \/ \E f \in Flows, resp \in ConcurrentResponses :
           get_exchange_rate_resume(f, resp)
    \/ status_begin
    \/ status_resume(BalanceReply(1000))
    \/ get_invoice_status_begin
    \/ get_invoice_status_resume(StatusReply("completed"))
    \/ \E unit \in supported_units, memo \in {"", "Test invoice"} :
           create_invoice_begin(unit, 21, memo)
    \/ \E resp \in RateResponses : create_invoice_rate(resp)
    \/ create_invoice_charge(ChargeReply("charge_123", "lnbc1000n1..."))

SpecConcurrent == Init /\ [][NextConcurrent]_vars

(***************************************************************************)
(* The rate endpoint answering NaN: get_exchange_rate and create_invoice   *)
(* for cents, with "nan" among the btcUsdPrice values.                     *)
(***************************************************************************)
NaNResponses ==
    {DataResponse(NaN), DataResponse(100000), ExcResponse("TimeoutException")}

NextNaN ==
    \/ Construct("usd", "test_api_key", PyNone)
    \/ \E f \in Flows : get_exchange_rate_begin(f)
    \/ \E f \in Flows, resp \in NaNResponses : get_exchange_rate_resume(f, resp)
    \/ create_invoice_begin("usd", 21, PyNone)
    \/ \E resp \in NaNResponses : create_invoice_rate(resp)
    \/ create_invoice_charge(ChargeReply("charge_123", "lnbc1000n1..."))

SpecNaN == Init /\ [][NextNaN]_vars

(***************************************************************************)
(* Properties of get_exchange_rate, stated of `last`, the call that ended  *)
(* most recently: every call that ends is `last` in the state it ends in.  *)
(***************************************************************************)

\* the call ended on a response that is a failed fetch: an exception, or a
\* rate that is not positive
FetchFailed(c) ==
    \/ c.resp.kind = "exc"
    \/ c.resp.kind = "data" /\ NonPositive(c.resp.price)

\* C1: a call never returns a cached rate (one it did not fetch itself)
\* whose age when it returns is 900 seconds or more, and a failed fetch that
\* finds a cached rate that old ends in a failure.
C1_NoExpiredRateReturned ==
    /\ last.outcome \in {"fresh", "fallback"} =>
           /\ last.endAge # NoAge
           /\ last.endAge < 900
           /\ last.result = last.endRate
    /\ (FetchFailed(last) /\ last.endAge >= 900) => last.outcome = "raised"

C1_Witness ==
    /\ last.outcome = "raised"
    /\ last.resp.kind = "exc"
    /\ last.endAge = 900

\* C2: a call that starts with a cached rate younger than 300 seconds
\* returns that rate and sends no request.
C2_FreshCacheHit ==
    (last.outcome # "none" /\ last.startAge # NoAge /\ last.startAge < 300) =>
        /\ last.outcome = "fresh"
        /\ last.result = last.startRate
        /\ last.reqs = 0

C2_Witness ==
    /\ last.outcome = "fresh"
    /\ last.startAge > 0
    /\ last.startAge < 300
    /\ last.result \in ValidPrices

\* C3: from an empty cache, when the calls are sequential, the first fetch
\* succeeds at time T and every later call starts before T + 300, one
\* request is sent in total and every call returns the same rate.
C3_OneRequestInFreshWindow ==
    (/\ ~hist.overlap
     /\ hist.first = "fetched"
     /\ hist.lastStart < hist.firstAt + 300) =>
        /\ requests = 1
        /\ Cardinality(hist.returned) = 1
        /\ ~hist.raised

C3_Witness ==
    /\ ncalls = MaxCalls
    /\ \A f \in Flows : pc[f] = "idle"
    /\ ~hist.overlap
    /\ hist.first = "fetched"
    /\ hist.lastStart > hist.firstAt
    /\ hist.lastStart < hist.firstAt + 300
    /\ requests = 1

\* C4: a call that starts with no cached rate or with one that is not fresh,
\* and whose fetch answers a rate > 0, leaves the cache holding that rate
\* stamped with the time of the answer, and returns that rate.
C4_SuccessfulFetchStored ==
    (/\ last.outcome # "none"
     /\ last.startAge = NoAge \/ last.startAge >= 300
     /\ last.resp.kind = "data"
     /\ Positive(last.resp.price)) =>
        /\ last.outcome = "fetched"
        /\ last.result = last.resp.price
        /\ last.leftRate = last.resp.price
        /\ last.leftAge = 0

C4_Witness ==
    /\ last.outcome = "fetched"
    /\ last.startAge >= 300
    /\ last.endAge >= 300
    /\ last.endAge < 900
    /\ last.endRate # last.result
    /\ rate_cache = CachedRate(last.result, now)

\* C5: a fetch that fails with an exception while the cached rate is at
\* least 300 and less than 900 seconds old makes the call return the cached
\* rate, after the one request it sent.
C5_CircuitBreakerFallback ==
    (last.resp.kind = "exc" /\ last.endAge >= 300 /\ last.endAge < 900) =>
        /\ last.outcome = "fallback"
        /\ last.result = last.endRate
        /\ last.error = ""
        /\ last.reqs = 1

C5_Witness ==
    /\ last.outcome = "fallback"
    /\ last.resp.kind = "exc"
    /\ last.endAge >= 300
    /\ last.result \in ValidPrices

\* C6: a fetch that fails with an exception while there is no cached rate,
\* or one 900 seconds old or older, makes the call raise RuntimeError with
\* the exception in its message.
C6_RateUnavailable ==
    (last.resp.kind = "exc" /\ (last.endAge = NoAge \/ last.endAge >= 900)) =>
        /\ last.outcome = "raised"
        /\ last.error = "RuntimeError"
        /\ last.cause = last.resp.exc

C6_Witness ==
    /\ last.outcome = "raised"
    /\ last.resp.kind = "exc"
    /\ last.endAge = NoAge
    /\ last.cause \in FetchErrors

\* C7: an answer whose rate is zero or negative is never stored and is
\* handled as a failed fetch: the call returns the cached rate if it is
\* less than 900 seconds old, and raises RuntimeError otherwise.
C7_InvalidRateIsFailure ==
    /\ rate_cache.set => ~NonPositive(rate_cache.rate)
    /\ (last.resp.kind = "data" /\ NonPositive(last.resp.price)) =>
           /\ last.leftAge = last.endAge
           /\ last.leftRate = last.endRate
           /\ IF last.endAge # NoAge /\ last.endAge < 900
              THEN last.outcome = "fallback" /\ last.result = last.endRate
              ELSE last.outcome = "raised" /\ last.error = "RuntimeError"

C7_Witness ==
    /\ last.resp.kind = "data"
    /\ NonPositive(last.resp.price)
    /\ last.outcome = "fallback"
    /\ rate_cache.set

(***************************************************************************)
(* Properties of cents_to_msats.                                           *)
(***************************************************************************)

\* the exact value of cents / 100 / rate * 100000000, rounded up
CeilingSats(cents, rate) == (cents * 1000000 + rate - 1) \div rate

\* C8: for all cents >= 0 and rates > 0 the result of cents_to_msats is a
\* non-negative multiple of 1000.
C8_MultipleOf1000 ==
    conv.done => conv.msats >= 0 /\ conv.msats % 1000 = 0

\* C9: for all cents >= 0 and rates > 0 the result of cents_to_msats is 1000
\* times the exact satoshi value rounded up (1 cent at 96000 gives 11000,
\* 10 cents give 105000).
C9_CeilingOfExactSats ==
    conv.done => conv.msats = 1000 * CeilingSats(conv.cents, conv.rate)

\* C10: cents_to_msats(0, rate) is 0 for every rate > 0.
C10_ZeroCentsIsZero ==
    (conv.done /\ conv.cents = 0) => conv.msats = 0

C10_Witness ==
    /\ conv.done
    /\ conv.cents = 0
    /\ conv.rate = 96000
    /\ conv.msats = 0

(***************************************************************************)
(* Properties of the wallet's methods, stated of `ret`, the call that      *)
(* ended last, and of `ctor`, the last construction.                       *)
(***************************************************************************)

\* a message that is present and has some text
NonEmpty(m) == m # NoMessage /\ \E i \in 1..Len(m) : m[i] # ""

\* C11: the provider-status mapping used by get_invoice_status is total:
\* pending gives PENDING, completed SETTLED, expired and error FAILED, and
\* every other status string UNKNOWN, without raising.
C11_StatusMappingTotal ==
    (ret.op = "get_invoice_status" /\ ret.reply.kind = "data"
        /\ ret.reply.status # PyNone) =>
        /\ ret.kind = "PaymentStatus"
        /\ \/ ret.reply.status = "pending" /\ ret.result = "PENDING"
           \/ ret.reply.status = "completed" /\ ret.result = "SETTLED"
           \/ ret.reply.status \in {"expired", "error"} /\ ret.result = "FAILED"
           \/ /\ ret.reply.status \notin {"pending", "completed", "expired", "error"}
              /\ ret.result = "UNKNOWN"

C11_Witness ==
    /\ ret.op = "get_invoice_status"
    /\ ret.reply = StatusReply("some_new_status")
    /\ ret.kind = "PaymentStatus"
    /\ ret.result = "UNKNOWN"

\* C12: pay_invoice, get_payment_status and get_payment_quote raise
\* Unsupported on every call, in every state, and have no side effects: no
\* request is issued and the rate cache is unchanged.
C12_MeltAlwaysUnsupported ==
    [][(nops' # nops /\ ret'.op \in {"pay_invoice", "get_payment_status",
                                     "get_payment_quote"}) =>
          /\ ret'.kind = "raise"
          /\ ret'.exc = "Unsupported"
          /\ ret'.log = <<>>
          /\ requests' = requests
          /\ rate_cache' = rate_cache
          /\ cur' = cur
          /\ fpc' = fpc
          /\ wallet' = wallet]_vars

C12_Witness ==
    /\ ret.op = "get_payment_status"
    /\ ret.kind = "raise"
    /\ ret.exc = "Unsupported"
    /\ fpc = "charge"
    /\ rate_cache.set
    /\ requests = 1

\* C13: when create_invoice is called with a usd amount and the rate
\* resolution fails with rate-unavailable, it returns ok=false with an error
\* message carrying the cause, raises nothing, and issues no charge-create
\* request.
C13_RateErrorShortCircuits ==
    (ret.op = "create_invoice" /\ ret.unit = "usd" /\ ret.rate_outcome = "raised") =>
        /\ ret.kind = "InvoiceResponse"
        /\ ~ret.ok
        /\ ret.error_message =
               <<"Exchange rate error: ", "Failed to fetch exchange rate from ZBD: ",
                 IF ret.resp.kind = "exc" THEN ret.resp.exc ELSE InvalidRateError>>
        /\ ret.checking_id = PyNone
        /\ ret.payment_request = PyNone
        /\ ret.log = <<"GET /v1/btcusd">>
        /\ ~ret.payload.built
        /\ ret.reply = NoReply

C13_Witness ==
    /\ ret.op = "create_invoice"
    /\ ret.unit = "usd"
    /\ ret.rate_outcome = "raised"
    /\ ret.resp = ExcResponse("TimeoutException")
    /\ rate_cache.set
    /\ ~ret.ok

\* C14: when the charge-create request throws or returns a non-2xx status,
\* create_invoice returns ok=false with a non-empty error_message and raises
\* nothing.
C14_ChargeFailureIsNotOk ==
    (ret.op = "create_invoice" /\ ret.reply.kind \in {"http", "exc"}) =>
        /\ ret.kind = "InvoiceResponse"
        /\ ~ret.ok
        /\ NonEmpty(ret.error_message)

C14_Witness ==
    /\ ret.op = "create_invoice"
    /\ ret.reply = OtherError("Connection refused")
    /\ ret.kind = "InvoiceResponse"
    /\ ~ret.ok
    /\ ret.unit = "usd"

\* C15: every InvoiceResponse of create_invoice has, when ok, checking_id
\* and payment_request populated and no error_message, and when not ok, an
\* error_message and neither checking_id nor payment_request; also for a 2xx
\* body that lacks the id or the invoice request.
C15_ExactlyOneSidePopulated ==
    (ret.op = "create_invoice" /\ ret.kind = "InvoiceResponse") =>
        /\ ret.ok => /\ ret.checking_id # PyNone
                     /\ ret.payment_request # PyNone
                     /\ ret.error_message = NoMessage
        /\ ~ret.ok => /\ ret.error_message # NoMessage
                      /\ ret.checking_id = PyNone
                      /\ ret.payment_request = PyNone

\* C16: create_invoice and get_invoice_status return a structured result for
\* every input and every remote outcome and never raise; create_invoice with
\* a unit outside {sat, usd} returns a non-ok InvoiceResponse.
C16_NeverRaises ==
    /\ ret.op \in {"create_invoice", "get_invoice_status"} => ret.kind # "raise"
    /\ (ret.op = "create_invoice" /\ ret.unit \notin {"sat", "usd"}) =>
           ret.kind = "InvoiceResponse" /\ ~ret.ok

\* C17: when the charge-status request of get_invoice_status fails in any
\* way, the call returns UNKNOWN with a non-empty error_message and does not
\* raise.
C17_StatusFailureIsUnknown ==
    (ret.op = "get_invoice_status" /\ ret.reply.kind \in {"http", "exc"}) =>
        /\ ret.kind = "PaymentStatus"
        /\ ret.result = "UNKNOWN"
        /\ NonEmpty(ret.error_message)

C17_Witness ==
    /\ ret.op = "get_invoice_status"
    /\ ret.reply = HttpError("Not Found")
    /\ ret.result = "UNKNOWN"
    /\ ret.error_message # NoMessage

\* C18: when the balance request of status() fails in any way, status()
\* returns a balance of 0 sat with a non-empty error_message and does not
\* raise; every failure kind gives this same outcome.
C18_BalanceFailureIsZero ==
    (ret.op = "status" /\ ret.reply.kind \in {"http", "exc"}) =>
        /\ ret.kind = "StatusResponse"
        /\ ret.balance = 0
        /\ ret.balance_unit = "sat"
        /\ NonEmpty(ret.error_message)

C18_Witness ==
    /\ ret.op = "status"
    /\ ret.reply = OtherError("ReadTimeout")
    /\ ret.kind = "StatusResponse"
    /\ ret.balance = 0
    /\ ret.error_message # NoMessage

\* C19: when the balance endpoint returns b millisatoshis, status() returns
\* floor(b / 1000) sat with no error message.
C19_BalanceInSats ==
    (ret.op = "status" /\ ret.reply.kind = "data" /\ ret.reply.balance_set) =>
        /\ ret.kind = "StatusResponse"
        /\ ret.balance * 1000 <= ret.reply.balance
        /\ ret.reply.balance < (ret.balance + 1) * 1000
        /\ ret.balance_unit = "sat"
        /\ ret.error_message = NoMessage

C19_Witness ==
    /\ ret.op = "status"
    /\ ret.reply = BalanceReply(1999)
    /\ ret.balance = 1
    /\ ret.error_message = NoMessage

\* C20: constructing the wallet with a unit outside {sat, usd} always fails
\* with Unsupported, before any network access, before the API-key check and
\* before the HTTP client is created.
C20_UnitGateComesFirst ==
    (ctor.outcome # "none" /\ ctor.unit \notin {"sat", "usd"}) =>
        /\ ctor.outcome = "Unsupported"
        /\ ctor.steps = <<"assert_unit_supported">>
        /\ ~wallet.built
        /\ ~wallet.client
        /\ requests = 0
        /\ fpc = "idle"

C20_Witness ==
    /\ ctor.outcome = "Unsupported"
    /\ ctor.unit = "eur"
    /\ ctor.api_key = ""
    /\ ~wallet.built

\* C21: constructing the wallet with a supported unit and no API key (absent
\* or empty) fails with a configuration error (ValueError), and no instance
\* with an HTTP client is produced.
C21_ApiKeyRequired ==
    (ctor.outcome # "none" /\ ctor.unit \in {"sat", "usd"}
        /\ ctor.api_key \in {PyNone, ""}) =>
        /\ ctor.outcome = "ValueError"
        /\ \A i \in 1..Len(ctor.steps) : ctor.steps[i] # "client"
        /\ ~wallet.built
        /\ ~wallet.client

C21_Witness ==
    /\ ctor.outcome = "ValueError"
    /\ ctor.unit = "usd"
    /\ ctor.api_key = ""
    /\ ~wallet.client

(***************************************************************************)
(* Properties of paid_invoices_stream, stated of `stream`.                 *)
(***************************************************************************)

\* C22: iterating paid_invoices_stream without the redis package, or without
\* a broker URL, fails with an error of its own for each case, before any
\* connection or subscribe attempt.
C22_StreamConfigFailsFast ==
    /\ (stream.pc # "idle" /\ ~stream.installed) =>
           /\ stream.pc = "done"
           /\ stream.raised = "RuntimeError"
           /\ stream.message =
                  "redis package required for paid_invoices_stream. Install with: pip install redis"
           /\ stream.log = <<>>
           /\ ~stream.opened
    /\ (stream.pc # "idle" /\ stream.installed
            /\ stream.redis_url \in {PyNone, ""}) =>
           /\ stream.pc = "done"
           /\ stream.raised = "RuntimeError"
           /\ stream.message =
                  "MINT_REDIS_URL environment variable required for paid_invoices_stream"
           /\ stream.log = <<>>
           /\ ~stream.opened

C22_Witness ==
    /\ stream.pc = "done"
    /\ stream.installed
    /\ stream.redis_url = ""
    /\ stream.raised = "RuntimeError"
    /\ stream.log = <<>>

RECURSIVE MessagesOf(_)
\* the data of the events of type "message", in order
MessagesOf(events) ==
    IF events = <<>> THEN <<>>
    ELSE (IF Head(events).type = "message" THEN <<Head(events).data>> ELSE <<>>)
             \o MessagesOf(Tail(events))

\* the identifier whose UTF-8 bytes are data
IdOf(data) ==
    CASE data = <<97, 49>> -> <<"a", "1">>
      [] data = <<98, 50>> -> <<"b", "2">>

\* C23: once subscribed, the identifiers yielded are exactly the events of
\* type "message" received, in arrival order, each once; events of any other
\* type yield nothing.
C23_YieldsExactlyTheMessages ==
    LET msgs == MessagesOf(stream.inbound)
    IN  /\ Len(stream.yielded) = Len(msgs)
        /\ \A i \in 1..Len(msgs) : stream.yielded[i] = IdOf(msgs[i])
        /\ stream.pc = "yield" =>
               stream.inbound[Len(stream.inbound)].type = "message"

C23_Witness ==
    /\ stream.inbound = <<Event("pmessage", <<97, 49>>), Event("message", <<98, 50>>),
                          Event("message", <<98, 50>>)>>
    /\ stream.yielded = <<<<"b", "2">>, <<"b", "2">>>>
    /\ stream.pc = "yield"

C25_AlwaysClosed ==
    (stream.pc = "done" /\ stream.opened) =>
        \E i \in 1..Len(stream.log) : stream.log[i] = "close"

(***************************************************************************)
(* Properties of the rate cache across all the operations.                 *)
(***************************************************************************)

\* C26: the rate cache is absent at the start, changes only when a
\* get_exchange_rate call completes a successful fetch of a positive rate,
\* and once set is never absent again; every other operation, a fresh-cache
\* hit and a failed fetch leave it unchanged, and an expired entry is kept.
C26_CacheLifecycle ==
    /\ ~rate_cache.set
    /\ [][/\ rate_cache.set => rate_cache'.set
          /\ rate_cache' # rate_cache =>
                 /\ rate_cache'.set
                 /\ Positive(rate_cache'.rate)
                 /\ rate_cache'.timestamp = now
                 /\ \/ /\ fpc = "rate"
                       /\ fpc' = "charge"
                       /\ cur'.rate_outcome = "fetched"
                       /\ cur'.resp.kind = "data"
                       /\ cur'.resp.price = rate_cache'.rate
                    \/ /\ \E f \in Flows : pc[f] = "fetching" /\ pc'[f] = "idle"
                       /\ last'.outcome = "fetched"
                       /\ last'.resp.kind = "data"
                       /\ last'.resp.price = rate_cache'.rate]_vars

C26_Witness ==
    /\ rate_cache.set
    /\ now - rate_cache.timestamp >= 900
    /\ ret.op = "create_invoice"
    /\ ret.rate_outcome = "raised"
    /\ ret.resp = DataResponse(0)

\* C27: is_fresh holds exactly when now minus the stored timestamp is
\* strictly below 300 and is_usable exactly when it is strictly below 900;
\* so fresh implies usable, an entry aged exactly 300 is usable and not
\* fresh, and an entry aged exactly 900 is neither.
C27_FreshAndUsable ==
    rate_cache.set =>
        LET age == now - rate_cache.timestamp
        IN  /\ is_fresh(rate_cache, now) <=> age < 300
            /\ is_usable(rate_cache, now) <=> age < 900
            /\ is_fresh(rate_cache, now) => is_usable(rate_cache, now)
            /\ age = 300 => is_usable(rate_cache, now) /\ ~is_fresh(rate_cache, now)
            /\ age = 900 => ~is_usable(rate_cache, now) /\ ~is_fresh(rate_cache, now)

C27_Witness ==
    /\ rate_cache.set
    /\ now - rate_cache.timestamp = 300
    /\ is_usable(rate_cache, now)
    /\ ~is_fresh(rate_cache, now)

\* C28: a timeout of the remote call is handled like any other transport
\* failure: in get_exchange_rate it triggers the circuit-breaker fallback
\* (the usable cached rate, else rate-unavailable), and in create_invoice,
\* get_invoice_status and status it gives the non-ok, UNKNOWN and
\* zero-balance result with a message instead of an exception.
C28_TimeoutLikeAnyFailure ==
    /\ [](ret.reply = OtherError("ReadTimeout") =>
            /\ ret.op = "create_invoice" =>
                   /\ ret.kind = "InvoiceResponse"
                   /\ ~ret.ok
                   /\ NonEmpty(ret.error_message)
                   /\ [ret EXCEPT !.error_message = NoMessage, !.reply = NoReply]
                        = [charge_result(OtherError("Connection refused")) EXCEPT
                               !.op = ret.op, !.unit = ret.unit, !.amount = ret.amount,
                               !.rate = ret.rate, !.rate_outcome = ret.rate_outcome,
                               !.resp = ret.resp, !.log = ret.log,
                               !.payload = ret.payload, !.error_message = NoMessage]
            /\ ret.op = "get_invoice_status" =>
                   /\ ret.kind = "PaymentStatus"
                   /\ ret.result = "UNKNOWN"
                   /\ NonEmpty(ret.error_message)
            /\ ret.op = "status" =>
                   /\ ret.kind = "StatusResponse"
                   /\ ret.balance = 0
                   /\ ret.balance_unit = "sat"
                   /\ NonEmpty(ret.error_message))
    /\ [][(/\ fpc = "rate"
           /\ fpc' # "rate"
           /\ \/ cur'.resp = ExcResponse("TimeoutException")
              \/ ret'.resp = ExcResponse("TimeoutException")) =>
          /\ rate_cache' = rate_cache
          /\ IF rate_cache.set /\ now - rate_cache.timestamp < 900
             THEN /\ fpc' = "charge"
                  /\ cur'.rate_outcome = "fallback"
                  /\ cur'.rate = rate_cache.rate
             ELSE /\ fpc' = "idle"
                  /\ ret'.kind = "InvoiceResponse"
                  /\ ~ret'.ok
                  /\ ret'.rate_outcome = "raised"
                  /\ NonEmpty(ret'.error_message)]_vars

C28_Witness ==
    /\ ret.op = "create_invoice"
    /\ ret.resp = ExcResponse("TimeoutException")
    /\ ret.rate_outcome = "fallback"
    /\ ret.reply = OtherError("ReadTimeout")
    /\ ~ret.ok

\* C29: when several get_exchange_rate calls refresh the rate concurrently
\* and succeed, each returns the rate it fetched itself and stores it with
\* the time of its own store; the cache holds what the call that stored last
\* wrote, never a value no call fetched nor a rate with another call's
\* timestamp.
C29_LastWriteWins ==
    /\ [](last.outcome = "fetched" =>
              rate_cache.set /\ rate_cache.rate = last.result)
    /\ [][LET resumed == \E f \in Flows : pc[f] = "fetching" /\ pc'[f] = "idle"
          IN  /\ (resumed /\ last'.resp.kind = "data" /\ Positive(last'.resp.price)) =>
                     /\ last'.outcome = "fetched"
                     /\ last'.result = last'.resp.price
                     /\ rate_cache' = [set |-> TRUE, rate |-> last'.resp.price,
                                       timestamp |-> now]
              /\ rate_cache' # rate_cache =>
                     /\ resumed
                     /\ rate_cache'.rate = last'.resp.price
                     /\ rate_cache'.timestamp = now]_vars

C29_Witness ==
    /\ hist.overlap
    /\ ncalls = 2
    /\ requests = 2
    /\ \A f \in Flows : pc[f] = "idle"
    /\ hist.returned = {96000, 100000}
    /\ ~hist.raised
    /\ last.outcome = "fetched"
    /\ rate_cache.rate = last.result
    /\ rate_cache.timestamp > 0

\* C30: no flow holds a lock across a remote call: whether a call can start
\* or go on depends on its own position only, so while one call is suspended
\* in a rate fetch, a charge creation, a status check or a balance request,
\* any other call can read or replace the rate cache and run to its end.
C30_NoFlowBlocksAnother ==
    /\ \A f \in Flows :
           /\ (pc[f] = "idle" /\ ncalls < MaxCalls) =>
                  ENABLED get_exchange_rate_begin(f)
           /\ pc[f] = "fetching" =>
                  \A resp \in RateResponses : ENABLED get_exchange_rate_resume(f, resp)
    /\ (wallet.built /\ fpc = "idle" /\ nops < MaxOps) =>
           /\ ENABLED status_begin
           /\ ENABLED get_invoice_status_begin
           /\ ENABLED create_invoice_begin("sat", 21, PyNone)
    /\ fpc = "charge" =>
           ENABLED create_invoice_charge(ChargeReply("charge_123", "lnbc1000n1..."))
    /\ fpc = "status" => ENABLED get_invoice_status_resume(StatusReply("completed"))
    /\ fpc = "balance" => ENABLED status_resume(BalanceReply(1000))

C30_Witness ==
    /\ fpc = "rate"
    /\ requests = 2
    /\ ncalls = 2
    /\ \A f \in Flows : pc[f] = "idle"
    /\ hist.first = "fetched"
    /\ last.outcome = "fresh"
    /\ rate_cache.set

(***************************************************************************)
(* Properties of the requests of create_invoice, stated of `cur`, the call *)
(* in progress, and of `ret`.                                              *)
(***************************************************************************)

RECURSIVE DecimalValue(_)
\* the number a string of decimal digits stands for
DecimalValue(s) ==
    LET value == [d \in {"0", "1", "2", "3", "4", "5", "6", "7", "8", "9"} |->
                      CHOOSE n \in 0..9 :
                          <<"0", "1", "2", "3", "4", "5", "6", "7", "8", "9">>[n + 1] = d]
    IN  IF s = <<>> THEN 0
        ELSE 10 * DecimalValue(SubSeq(s, 1, Len(s) - 1)) + value[s[Len(s)]]

\* a decimal string as str() gives it: digits, no leading zero
IsDecimal(s) ==
    /\ Len(s) >= 1
    /\ \A i \in 1..Len(s) : s[i] \in {"0", "1", "2", "3", "4", "5", "6", "7", "8", "9"}
    /\ Len(s) > 1 => s[1] # "0"

\* what holds of a create_invoice call c (in progress or ended) for satoshis
SatCall(c) ==
    /\ c.payload.built
    /\ IsDecimal(c.payload.amount)
    /\ DecimalValue(c.payload.amount) = c.amount * 1000
    /\ c.log = <<"POST /v1/charges">>
    /\ c.rate_outcome = "none"
    /\ c.resp = NoResponse

\* C31: for a sat amount of n satoshis, create_invoice sends the amount as
\* the decimal string of n*1000, makes no rate lookup (no rate request, no
\* use of the rate cache, which it leaves as it is) and sends exactly one
\* charge-create request.
C31_SatAmountTimes1000 ==
    /\ []((cur.op = "create_invoice" /\ cur.unit = "sat") =>
              fpc = "charge" /\ SatCall(cur))
    /\ []((ret.op = "create_invoice" /\ ret.unit = "sat") =>
              ret.kind = "InvoiceResponse" /\ SatCall(ret))
    /\ [][(\/ cur'.op = "create_invoice" /\ cur'.unit = "sat" /\ cur' # cur
           \/ ret'.op = "create_invoice" /\ ret'.unit = "sat" /\ ret' # ret) =>
              /\ rate_cache' = rate_cache
              /\ requests' = requests
              /\ last' = last]_vars

C31_Witness ==
    /\ ret.op = "create_invoice"
    /\ ret.unit = "sat"
    /\ ret.amount = 21
    /\ ret.ok
    /\ ret.payload.amount = <<"2", "1", "0", "0", "0">>
    /\ ret.log = <<"POST /v1/charges">>
    /\ requests = 0
    /\ ~rate_cache.set

\* what holds of a create_invoice call c for cents that has sent its charge
UsdCall(c) ==
    /\ c.rate_outcome \in {"fresh", "fetched", "fallback"}
    /\ c.rate > 0
    /\ c.rate_outcome = "fetched" => c.rate = c.resp.price
    /\ c.payload.built
    /\ IsDecimal(c.payload.amount)
    /\ DecimalValue(c.payload.amount) = cents_to_msats(c.amount, c.rate)
    /\ c.log = IF c.rate_outcome = "fresh"
               THEN <<"POST /v1/charges">>
               ELSE <<"GET /v1/btcusd", "POST /v1/charges">>

\* C32: for a usd amount, create_invoice resolves the rate first and only
\* then sends the charge-create request; the amount sent is
\* cents_to_msats(amount, rate) for the rate its own rate resolution
\* returned (the cached rate it read, or the rate it fetched), and a store
\* made by a concurrent call after that does not change what was sent.
C32_RateThenCharge ==
    /\ []((cur.op = "create_invoice" /\ cur.unit = "usd" /\ fpc = "rate") =>
              /\ cur.log = <<"GET /v1/btcusd">>
              /\ ~cur.payload.built)
    /\ []((cur.op = "create_invoice" /\ cur.unit = "usd" /\ fpc = "charge") =>
              UsdCall(cur))
    /\ []((ret.op = "create_invoice" /\ ret.unit = "usd" /\ ret.payload.built) =>
              UsdCall(ret))
    /\ [][(fpc' = "charge" /\ fpc # "charge" /\ cur'.unit = "usd") =>
              cur'.rate = IF cur'.rate_outcome = "fetched" THEN rate_cache'.rate
                                                         ELSE rate_cache.rate]_vars
    /\ [][(fpc = "charge" /\ cur.unit = "usd") =>
              /\ fpc' = "charge" => cur' = cur
              /\ fpc' # "charge" => /\ ret'.payload = cur.payload
                                    /\ ret'.rate = cur.rate
                                    /\ ret'.log = cur.log]_vars

C32_Witness ==
    /\ fpc = "charge"
    /\ cur.unit = "usd"
    /\ cur.amount = 21
    /\ cur.rate_outcome = "fetched"
    /\ cur.rate = 100000
    /\ rate_cache = CachedRate(96000, 0)
    /\ DecimalValue(cur.payload.amount) = cents_to_msats(21, 100000)
    /\ DecimalValue(cur.payload.amount) # cents_to_msats(21, 96000)

\* C33: every charge-create request built by create_invoice carries
\* expiresIn 900, a description equal to the memo when one is given (a memo
\* that is None or the empty string is none) and to the fixed default text
\* otherwise, and a callbackUrl field exactly when a non-empty callback URL
\* is configured, which is then the URL configured.
C33_ChargePayload ==
    (cur.op = "create_invoice" /\ fpc = "charge") =>
        /\ cur.log # <<>>
        /\ cur.log[Len(cur.log)] = "POST /v1/charges"
        /\ cur.payload.built
        /\ cur.payload.expiresIn = 900
        /\ cur.payload.description =
               IF cur.memo \in {PyNone, ""} THEN "Wavlake streaming credits"
                                            ELSE cur.memo
        /\ cur.payload.callbackUrl # PyNone <=> ctor.callback_url \notin {PyNone, ""}
        /\ cur.payload.callbackUrl # PyNone =>
               cur.payload.callbackUrl = ctor.callback_url

C33_Witness ==
    /\ fpc = "charge"
    /\ cur.op = "create_invoice"
    /\ cur.memo = "Test invoice"
    /\ cur.payload.description = "Test invoice"
    /\ cur.payload.expiresIn = 900
    /\ ctor.callback_url = "https://example.com/webhook"
    /\ cur.payload.callbackUrl = "https://example.com/webhook"

(***************************************************************************)
(* Properties of get_exchange_rate across its calls, stated of `hist` and  *)
(* of the steps of the calls.                                              *)
(***************************************************************************)

\* a call of flow f starts in this step
Starts(f) == pc[f] = "idle" /\ ncalls' = ncalls + 1

\* the call of flow f gets its response and ends in this step
Resumes(f) == pc[f] = "fetching" /\ pc'[f] = "idle"

\* C34: reads never extend the life of a cached rate: a fresh-cache hit and
\* a circuit-breaker fallback leave the stored timestamp as it is, the time
\* of the last successful store; so a call whose fetch fails 900 seconds or
\* more after that store fails, however many calls returned the cached rate
\* by fallback in between.
C34_ReadsDoNotRenew ==
    /\ [](rate_cache.set =>
              /\ hist.storedAt # NoStore
              /\ rate_cache.timestamp = hist.storedAt)
    /\ [][\A f \in Flows :
            /\ (Starts(f) \/ Resumes(f)) /\ last'.outcome \in {"fresh", "fallback"} =>
                   rate_cache' = rate_cache
            /\ (/\ Resumes(f)
                /\ FetchFailed(last')
                /\ hist.storedAt # NoStore
                /\ now - hist.storedAt >= 900) =>
                   /\ last'.outcome = "raised"
                   /\ hist'.fallbacks = hist.fallbacks
                   /\ hist'.storedAt = hist.storedAt]_vars

C34_Witness ==
    /\ last.outcome = "raised"
    /\ FetchFailed(last)
    /\ hist.storedAt = 0
    /\ hist.fallbacks >= 1
    /\ last.endAge >= 900
    /\ rate_cache.timestamp = 0

\* the cache entry the call found when its fetch failed is another than
\* the one it found when it started: a concurrent call stored in between
StoredInFlight(c) ==
    /\ c.endAge # NoAge
    /\ c.startAge = NoAge \/ c.endAge < c.startAge \/ c.endRate # c.startRate

\* C35: the circuit-breaker fallback looks at the cache as it is when the
\* fetch fails, not as it was when the call started: a call whose fetch
\* fails after a concurrent call stored a newer rate returns that newer
\* rate, and a call that started with a usable entry which is 900 seconds
\* old when its fetch fails raises.
C35_FallbackAtFailureTime ==
    FetchFailed(last) =>
        /\ (StoredInFlight(last) /\ last.endAge < 900) =>
               /\ last.outcome = "fallback"
               /\ last.result = last.endRate
        /\ (last.startAge # NoAge /\ last.startAge < 900 /\ last.endAge >= 900) =>
               /\ last.outcome = "raised"
               /\ last.error = "RuntimeError"

C35_Witness ==
    /\ FetchFailed(last)
    /\ last.outcome = "fallback"
    /\ last.startAge >= 300
    /\ last.startRate = 96000
    /\ last.endAge < 300
    /\ last.endRate = 100000
    /\ last.result = 100000

\* the calls in flight
InFlight == {f \in Flows : pc[f] = "fetching"}

\* C36: each get_exchange_rate call sends at most one rate request: none
\* when the cache is fresh as it starts, exactly one otherwise, and none
\* after its response (no retry); calls in flight together, having started
\* with no cache or one that is not fresh, have each sent their own request
\* (no coalescing).
C36_OneRequestPerCall ==
    /\ [](/\ last.outcome # "none" =>
                last.reqs = IF last.startAge # NoAge /\ last.startAge < 300
                            THEN 0 ELSE 1
          /\ \A f \in InFlight : started[f].reqs = 1
          /\ requests >= Cardinality(InFlight))
    /\ [][\A f \in Flows :
            /\ Starts(f) =>
                   IF rate_cache.set /\ now - rate_cache.timestamp < 300
                   THEN requests' = requests /\ pc' = pc
                   ELSE /\ requests' = requests + 1
                        /\ \E g \in Flows : pc' = [pc EXCEPT ![g] = "fetching"]
            /\ Resumes(f) => requests' = requests]_vars

C36_Witness ==
    /\ InFlight = Flows
    /\ requests = 3
    /\ hist.overlap
    /\ rate_cache.set
    /\ now - rate_cache.timestamp >= 300
    /\ last.outcome = "fetched"
    /\ last.reqs = 1

(***************************************************************************)
(* Properties of the rates stored and returned.                            *)
(***************************************************************************)

\* C37: whenever the cache was written by get_exchange_rate only, the
\* cached rate is strictly positive, so every rate get_exchange_rate
\* returns is strictly positive and the usd conversion of create_invoice
\* never divides by zero.
C37_RateAlwaysPositive ==
    /\ rate_cache.set => Positive(rate_cache.rate)
    /\ last.outcome \in {"fresh", "fetched", "fallback"} => Positive(last.result)
    /\ (cur.op = "create_invoice" /\ cur.unit = "usd" /\ cur.payload.built) =>
           Positive(cur.rate)


\* C38: the clock never goes back, and the timestamp of the rate cache never
\* decreases, whatever calls overlap: an entry is never removed, a store
\* stamps the time at which the response is handled, which is not before the
\* time the call was started nor before the timestamp already in the cache,
\* and nothing else changes the timestamp.
C38_TimestampNeverDecreases ==
    /\ [](rate_cache.set =>
              /\ rate_cache.timestamp = hist.storedAt
              /\ rate_cache.timestamp <= now)
    /\ [][/\ now' >= now
          /\ rate_cache.set =>
                 /\ rate_cache'.set
                 /\ rate_cache'.timestamp >= rate_cache.timestamp
          /\ \A f \in Flows :
                 (Resumes(f) /\ last'.outcome = "fetched") =>
                     /\ rate_cache'.timestamp = now'
                     /\ rate_cache'.timestamp >= started[f].at
          /\ rate_cache'.timestamp # rate_cache.timestamp =>
                 \E f \in Flows : Resumes(f) /\ last'.outcome = "fetched"]_vars

\* a call that started with an empty cache has stored its rate after
\* another call, started later or not, had stored one in between
C38_Witness ==
    /\ hist.overlap
    /\ last.outcome = "fetched"
    /\ last.startAge = NoAge
    /\ last.endAge > 0
    /\ rate_cache.set
    /\ rate_cache.timestamp = now
    /\ hist.storedAt = now


(***************************************************************************)
(* Properties of the results of get_invoice_status                         *)
(***************************************************************************)

\* the results after which the caller stops polling
TerminalResults == {"SETTLED", "FAILED"}

\* C39: get_invoice_status answers SETTLED only for a successful request
\* whose status is "completed", and FAILED only for a successful request
\* whose status is "expired" or "error"; a failed request, a status outside
\* the table and a reply without a status never give SETTLED or FAILED, and
\* the reply without a status gives PENDING.
C39_TerminalOnlyOnProviderStatus ==
    ret.op = "get_invoice_status" =>
        /\ ret.result = "SETTLED" =>
               ret.reply.kind = "data" /\ ret.reply.status = "completed"
        /\ ret.result = "FAILED" =>
               ret.reply.kind = "data" /\ ret.reply.status \in {"expired", "error"}
        /\ (\/ ret.reply.kind # "data"
            \/ ret.reply.status = PyNone
            \/ ret.reply.status \notin {"pending", "completed", "expired", "error"}) =>
               /\ ret.kind = "PaymentStatus"
               /\ ret.result \notin TerminalResults
        /\ ret.reply = EmptyReply => ret.result = "PENDING"

\* a successful reply without a status has been answered
C39_Witness ==
    /\ ret.op = "get_invoice_status"
    /\ ret.reply = EmptyReply
    /\ ret.kind = "PaymentStatus"
    /\ ret.result = "PENDING"
    /\ ret.error_message = NoMessage


(***************************************************************************)
(* Properties of create_invoice and the unit of the instance               *)
(***************************************************************************)

\* create_invoice is called and goes past its unit check
CreateInvoiceStarts == fpc = "idle" /\ cur'.op = "create_invoice"

\* C40: create_invoice chooses its conversion by the unit of the amount, for
\* an instance of either unit: a sat amount is multiplied by 1000 and sent
\* without any rate resolution, a usd amount goes through the rate
\* resolution (the fresh cached rate, or a rate request) before the charge;
\* the unit the instance was constructed with changes nothing.
C40_BranchOnAmountUnit ==
    /\ [](cur.op = "create_invoice" =>
              /\ wallet.unit \in supported_units
              /\ cur.unit \in supported_units
              /\ cur.unit = "sat" <=> (cur.rate_outcome = "none" /\ fpc = "charge"))
    /\ [][CreateInvoiceStarts =>
              /\ wallet' = wallet
              /\ cur'.unit = "sat" =>
                     /\ fpc' = "charge"
                     /\ requests' = requests
                     /\ cur'.rate_outcome = "none"
                     /\ cur'.payload.amount = str(cur'.amount * 1000)
              /\ cur'.unit = "usd" =>
                     IF FreshHit(rate_cache, now)
                     THEN /\ fpc' = "charge"
                          /\ requests' = requests
                          /\ cur'.rate_outcome = "fresh"
                          /\ cur'.payload.amount =
                                 str(cents_to_msats(cur'.amount, rate_cache.rate))
                     ELSE /\ fpc' = "rate"
                          /\ requests' = requests + 1
                          /\ ~cur'.payload.built]_vars

\* an instance constructed for sat has been given 21 cents: it fetched the
\* rate and sent the converted amount
C40_Witness ==
    /\ wallet.built
    /\ wallet.unit = "sat"
    /\ ctor.unit = "sat"
    /\ ret.op = "create_invoice"
    /\ ret.unit = "usd"
    /\ ret.amount = 21
    /\ ret.rate_outcome = "fetched"
    /\ ret.rate = 100000
    /\ ret.payload.amount = str(cents_to_msats(21, 100000))
    /\ ret.payload.amount # str(21 * 1000)
    /\ ret.ok

====
